---- MODULE Spec2Model ----
(***************************************************************************)
(* pittgoogle.pubsub.Consumer: the streaming pull, the per-message         *)
(* callback run by the transport's worker threads, and the foreground      *)
(* thread that drains the synchronization queue (src/pittgoogle/pubsub.py).*)
(* pittgoogle.schema and pittgoogle.registry: the schema registry lookup,  *)
(* the loading of a schema from message bytes, and the codecs.             *)
(***************************************************************************)
EXTENDS Integers, Sequences, FiniteSets, TLC

\* ---------------------------------------------------------------- bounds
\* number of messages the subscription delivers in one run
NumMsgs == 2
\* largest max_results the constructor is given
MaxResultsBound == 2
\* largest max_backlog the constructor is given
MaxBacklogBound == 2
\* largest number of streaming pulls stream() is let to open on one Consumer
MaxPulls == 2
\* the schema ids tried in a wire header are -MaxVersionId..MaxVersionId (and a
\* few of the far int32 values)
MaxVersionId == 710
\* largest number of items in a list or dict
MaxItems == 2
\* deepest nesting of lists and dicts in a value
MaxDepth == 2

\* Python's None for the optional integer settings (validators require > 0)
None == 0

Msgs == 1..NumMsgs

\* ---------------------------------------------------------------- state
VARIABLES
    max_results,            \* Consumer.max_results (None or > 0)
    timeout,                \* Consumer.timeout (None or > 0)
    max_backlog,            \* Consumer.max_backlog (coerced by stream())
    user_callback,          \* TRUE iff Consumer.user_callback is not None
    user_kwargs,            \* "empty" or "nonempty"
    results,                \* Consumer.results: the messages whose result was stored
    _block,                 \* Consumer._block
    _proceed,               \* Consumer._proceed
    _queue,                 \* Consumer._queue: the items put and not yet got
    unfinished,             \* Consumer._queue.unfinished_tasks
    streaming_pull_future,  \* "none", "open", "cancelled", "shutdown"
    max_messages,           \* FlowControl.max_messages given to subscribe()
    fpc,                    \* the foreground thread's position
    total_count,            \* _manage_flow's local total_count
    escaped,                \* the exception that left the Draining loop
    raised,                 \* the exception stream() raised to its caller
    item,                   \* the message whose count _queue.get just returned
    stops,                  \* how many times stop() was entered
    timed_out,              \* TRUE once _queue.get raised queue.Empty
    backlog_arg,            \* the max_backlog the constructor was given
    wpc,                    \* each message's worker position in callback()
    response,               \* each message's Response
    count,                  \* each message's local `count` in handle_response
    acks,                   \* calls of message.ack() per message
    nacks,                  \* calls of message.nack() per message
    cb_calls,               \* invocations of user_callback per message
    cb_raised,              \* TRUE iff user_callback raised for the message
    unpack_error,           \* TRUE iff _unpack_msg raised for the message
    wexc,                   \* the exception that left callback() for the message
    active_pulls            \* streaming pulls subscribe() opened and nobody cancelled

\* the schema library's state: one call at a time on one Schema object
VARIABLES
    lpc,                    \* the library call that was made last ("idle": none yet)
    schema,                 \* the Schema object under test
    alert_bytes,            \* the bytes given to _from_yaml or deserialize
    alert_dict,             \* the dict given to serialize
    out_bytes,              \* the bytes serialize returned
    out_dict,               \* the dict deserialize returned
    lexc,                   \* the exception the last library call raised
    schema_name,            \* the name given to Schemas.get
    got,                    \* what Schemas.get returned
    value,                  \* the value given to _clean_for_json
    cleaned                 \* what _clean_for_json returned

\* one Alert object, the objects it refers to, and the last call made on it
VARIABLES
    apc,                    \* the Alert call that was made last ("idle": none yet)
    args,                   \* its arguments: <<field, default>> of a get
    alert,                  \* the Alert's fields, with its schema's _map
    heap,                   \* the attribute dicts, by reference
    envelope,               \* the envelope given to from_cloud_run
    attributes0,            \* msg.attributes as it was when the Alert was made
    decodes,                \* how many times the payload was deserialized
    ret,                    \* what the last Alert call returned
    aexc                    \* the exception the last Alert call raised

alertvars == <<apc, args, alert, heap, envelope, attributes0, decodes, ret, aexc>>

libvars == <<lpc, schema, alert_bytes, alert_dict, out_bytes, out_dict, lexc,
             schema_name, got, value, cleaned>>

cfgvars == <<max_results, timeout, user_callback, user_kwargs, backlog_arg>>
convars == <<max_backlog, results, _block, _proceed, _queue, unfinished,
             streaming_pull_future, max_messages>>
fgvars == <<fpc, total_count, item, escaped, raised, stops, timed_out>>
wkvars == <<wpc, response, count, acks, nacks, cb_calls, cb_raised,
            unpack_error, wexc>>
consumervars == <<cfgvars, convars, fgvars, wkvars, active_pulls>>
vars == <<cfgvars, convars, fgvars, wkvars, active_pulls, libvars, alertvars>>

\* ---------------------------------------------------------------- values
\* types.Response(ack, result); an attrs class, which has no _replace
Response(ack, result) == [ack |-> ack, result |-> result, has_replace |-> FALSE]

\* what a user callback can hand back: an acking Response whose result is the
\* boolean False, None or any other value; a nacking Response with a value (the
\* nacking Response with None is what a raising callback is turned into); or an
\* object that is no Response (it has a true .ack but reading .result raises),
\* with or without a _replace method
UserReturns ==
    {Response(TRUE, r) : r \in {"False", "None", "value"}}
    \cup {Response(FALSE, "value")}
    \cup {[ack |-> TRUE, result |-> "missing", has_replace |-> h] : h \in BOOLEAN}

\* the outcome of a user callback that raises an exception instead of returning
Raises == [ack |-> FALSE, result |-> "raise", has_replace |-> FALSE]

\* handle_response's local `count` before any branch of the try assigns it
Unbound == -1

\* no Schema object
NoSchema ==
    [cls |-> "none", name |-> <<>>, version |-> <<>>, version_id |-> 0,
     definition |-> <<>>]

\* no value
NoValue == [t |-> "unset", v |-> 0, items |-> <<>>]

\* ---------------------------------------------------------------- helpers
RECURSIVE BitAnd(_, _)
\* Python's int & int on non-negative operands
BitAnd(a, b) ==
    IF a = 0 \/ b = 0 THEN 0
    ELSE (IF a % 2 = 1 /\ b % 2 = 1 THEN 1 ELSE 0) + 2 * BitAnd(a \div 2, b \div 2)

\* the condition of `if (self.max_results) & (total_count >= self.max_results):`,
\* where the bool operand of & counts as the int 1 or 0
MaxResultsReached(mr, total) == BitAnd(mr, IF total >= mr THEN 1 ELSE 0) # 0

\* a _backlog_le_results that leaves max_backlog as it was given
BacklogUnchanged(mb, mr) == mb

\* Consumer._backlog_le_results: the max_backlog it leaves behind
BacklogLeResults(mb, mr) == IF mr # None /\ mb > mr THEN mr ELSE mb

\* Consumer._confirm_no_user_callback: _proceed, given the answer typed at input()
ConfirmNoUserCallback(has_callback, answer) == IF has_callback THEN TRUE ELSE answer

\* a classification that tests `not response.result`, taking None for False
CountOfFalsy(result) == IF result \in {"False", "None"} THEN 0 ELSE 1

\* handle_response's classification of Response.result: the count
CountOf(result) == IF result = "False" THEN 0 ELSE 1

\* handle_response's classification of Response.result: whether it is stored
Stored(result) == result \notin {"False", "None"}

\* messages the transport has handed to callback() and that are neither acked
\* nor nacked: what FlowControl.max_messages limits
Outstanding ==
    Cardinality({d \in Msgs : wpc[d] # "undelivered" /\ acks[d] + nacks[d] = 0})

\* ---------------------------------------------------------------- text
\* a Python str is the sequence of its characters
Digits == <<"0", "1", "2", "3", "4", "5", "6", "7", "8", "9">>

RECURSIVE StrNat(_)
\* str(n) for n >= 0
StrNat(n) ==
    IF n < 10 THEN <<Digits[n + 1]>>
    ELSE Append(StrNat(n \div 10), Digits[(n % 10) + 1])

\* str(n) for a Python int
Str(n) == IF n < 0 THEN <<"-">> \o StrNat(-n) ELSE StrNat(n)

\* the index of the first c in s, 0 when there is none
FirstIndex(s, c) ==
    IF \E i \in 1..Len(s) : s[i] = c
      THEN CHOOSE i \in 1..Len(s) : s[i] = c /\ \A j \in 1..(i - 1) : s[j] # c
      ELSE 0

\* s.split(c, maxsplit=1)
SplitOnce(s, c) ==
    LET i == FirstIndex(s, c)
    IN  IF i = 0 THEN <<s>> ELSE <<SubSeq(s, 1, i - 1), SubSeq(s, i + 1, Len(s))>>

RECURSIVE Split(_, _)
\* s.split(c)
Split(s, c) ==
    LET i == FirstIndex(s, c)
    IN  IF i = 0 THEN <<s>>
        ELSE <<SubSeq(s, 1, i - 1)>> \o Split(SubSeq(s, i + 1, Len(s)), c)

RECURSIVE JoinStr(_, _)
\* c.join(parts)
JoinStr(parts, c) ==
    IF Len(parts) = 0 THEN <<>>
    ELSE IF Len(parts) = 1 THEN parts[1]
    ELSE parts[1] \o <<c>> \o JoinStr(Tail(parts), c)

RECURSIVE Strip(_, _)
\* s.strip(c)
Strip(s, c) ==
    IF Len(s) > 0 /\ s[1] = c THEN Strip(Tail(s), c)
    ELSE IF Len(s) > 0 /\ s[Len(s)] = c THEN Strip(SubSeq(s, 1, Len(s) - 1), c)
    ELSE s

\* the digit a character stands for
DigitOf(c) == CHOOSE d \in 0..9 : Digits[d + 1] = c

IsDigit(c) == \E d \in 0..9 : Digits[d + 1] = c

RECURSIVE NatOf(_)
\* int(s) for a non-empty string of digits
NatOf(s) ==
    IF Len(s) = 1 THEN DigitOf(s[1])
    ELSE 10 * NatOf(SubSeq(s, 1, Len(s) - 1)) + DigitOf(s[Len(s)])

\* whether int(s) returns: an optional sign, then digits only
IsIntLiteral(s) ==
    LET body == IF Len(s) > 0 /\ s[1] = "-" THEN Tail(s) ELSE s
    IN  Len(body) > 0 /\ \A i \in 1..Len(body) : IsDigit(body[i])

\* int(s) where IsIntLiteral(s)
IntOf(s) == IF s[1] = "-" THEN -NatOf(Tail(s)) ELSE NatOf(s)

\* ---------------------------------------------------------------- bytes
\* struct.pack(">i", n): the four bytes of the two's complement of n, most
\* significant first
PackInt(n) ==
    LET m == IF n < 0 THEN (n + 2147483647) + 1 ELSE n
        top == (m \div 16777216) + (IF n < 0 THEN 128 ELSE 0)
    IN  <<top, (m \div 65536) % 256, (m \div 256) % 256, m % 256>>

\* struct.unpack(">i", b) of four bytes
UnpackInt(b) ==
    LET top == IF b[1] >= 128 THEN b[1] - 128 ELSE b[1]
        m == top * 16777216 + b[2] * 65536 + b[3] * 256 + b[4]
    IN  IF b[1] >= 128 THEN (m - 2147483647) - 1 ELSE m

\* ---------------------------------------------------------------- Python values
\* a Python value: its type, a payload for the scalar types, and the items of a
\* list or the values of a dict (whose keys are the strings "a", "b", ... in
\* this order: no code modelled here changes a key)
Val(t, v, items) == [t |-> t, v |-> v, items |-> items]

NoneVal == Val("None", 0, <<>>)
IntVal(n) == Val("int", n, <<>>)
\* the float 1.5
FloatVal == Val("float", 0, <<>>)
\* float("nan")
NanVal == Val("nan", 0, <<>>)
\* the str numbered i in StrText
StrVal(i) == Val("str", i, <<>>)
DictVal(items) == Val("dict", 0, items)

\* the text of the strings: "s" and "czM=" (the base64 text of b"s3")
StrText == << <<"s">>, <<"c", "z", "M", "=">> >>

\* the ints that occur in values
IntValues == {-1, 64}

\* the scalars: None, floats, a str, the bytes b"s3" and an instance of a class
\* none of the code knows, and the ints
Leaves ==
    {NoneVal, FloatVal, NanVal, StrVal(1), Val("bytes", 0, <<>>), Val("object", 0, <<>>)}
    \cup {IntVal(n) : n \in IntValues}

RECURSIVE ValuesOfDepth(_)
\* the values nested at most d deep: the scalars, the lists and dicts of at
\* most MaxItems scalars, and the lists and dicts whose one item is nested at
\* most d - 1 deep
ValuesOfDepth(d) ==
    IF d = 0 THEN Leaves
    ELSE LET inner == ValuesOfDepth(d - 1)
             items == UNION {[1..k -> Leaves] : k \in 0..MaxItems} \cup {<<w>> : w \in inner}
         IN  Leaves \cup {Val("list", 0, q) : q \in items} \cup {DictVal(q) : q \in items}

Values == ValuesOfDepth(MaxDepth)

\* what a call that raised TypeError leaves instead of a value
RaisedTypeError == Val("TypeError", 0, <<>>)

RECURSIVE CleanForJson(_)
\* Serializers._clean_for_json
CleanForJson(val) ==
    IF val.t \in {"str", "int", "None"} THEN val
    ELSE IF val.t \in {"float", "nan"}
      THEN (IF val.t = "nan" THEN NoneVal ELSE val)
    ELSE IF val.t \in {"list", "dict"}
      THEN LET c == [i \in 1..Len(val.items) |-> CleanForJson(val.items[i])]
           IN  IF \E i \in 1..Len(c) : c[i] = RaisedTypeError
                 THEN RaisedTypeError
                 ELSE Val(val.t, 0, c)
    ELSE RaisedTypeError

\* ---------------------------------------------------------------- Avro
\* Avro's zigzag coding of a long
ZigZag(n) == IF n >= 0 THEN 2 * n ELSE (-2 * n) - 1

UnZigZag(u) == IF u % 2 = 0 THEN u \div 2 ELSE -((u + 1) \div 2)

RECURSIVE Varint(_)
\* Avro's variable-length coding of a non-negative integer, low 7 bits first
Varint(u) ==
    IF u < 128 THEN <<u>> ELSE <<128 + (u % 128)>> \o Varint(u \div 128)

RECURSIVE ReadVarint(_)
\* the integer at the head of b and the bytes after it; ok is FALSE when b
\* ends inside the integer
ReadVarint(b) ==
    IF Len(b) = 0 THEN [ok |-> FALSE, n |-> 0, rest |-> <<>>]
    ELSE IF b[1] < 128 THEN [ok |-> TRUE, n |-> b[1], rest |-> Tail(b)]
    ELSE LET r == ReadVarint(Tail(b))
         IN  [ok |-> r.ok, n |-> (b[1] - 128) + 128 * r.n, rest |-> r.rest]

\* the Avro definitions of this model are records of MaxItems fields of type
\* long: the dicts a definition can encode
MatchesDefinition(x) ==
    /\ x.t = "dict"
    /\ Len(x.items) = MaxItems
    /\ \A i \in 1..Len(x.items) : x.items[i].t = "int"


RECURSIVE WriteLongs(_)
\* fastavro's write_data for the items of a record of longs
WriteLongs(items) ==
    IF Len(items) = 0 THEN <<>>
    ELSE Varint(ZigZag(items[1].v)) \o WriteLongs(Tail(items))

RECURSIVE ReadLongs(_, _)
\* fastavro's read_data for a record of k longs
ReadLongs(b, k) ==
    IF k = 0 THEN [ok |-> TRUE, items |-> <<>>]
    ELSE LET r == ReadVarint(b)
             more == ReadLongs(r.rest, k - 1)
         IN  IF ~r.ok THEN [ok |-> FALSE, items |-> <<>>]
             ELSE [ok |-> more.ok, items |-> <<IntVal(UnZigZag(r.n))>> \o more.items]

\* the outcome of a call: the exception it raised ("none": it returned), the
\* bytes or the value it returned
Returned(b, val) == [exc |-> "none", bytes |-> b, val |-> val]
Raised(e) == [exc |-> e, bytes |-> <<>>, val |-> NoneVal]

\* what fastavro raises when it is given None for a schema (parse_schema(None)),
\* depending on its version
FastavroErrors == {"TypeError", "UnknownType"}

\* fastavro.schemaless_writer(fout, schema_definition, alert_dict); fout.getvalue()
SchemalessWriter(definition, x, ferr) ==
    IF definition = <<>> THEN Raised(ferr)
    ELSE IF ~MatchesDefinition(x) THEN Raised("ValueError")
    ELSE Returned(WriteLongs(x.items), NoneVal)

\* fastavro.schemaless_reader(bytes_io, schema_definition)
SchemalessReader(definition, b, ferr) ==
    IF definition = <<>> THEN Raised(ferr)
    ELSE LET r == ReadLongs(b, MaxItems)
         IN  IF r.ok THEN Returned(<<>>, DictVal(r.items)) ELSE Raised("EOFError")

\* ---------------------------------------------------------------- JSON
\* the keys of a dict, by position
KeyText == <<"a", "b", "c", "d">>

RECURSIVE JsonDumps(_)
RECURSIVE DumpItems(_, _, _)
\* the items of a list (keyed = FALSE) or the members of a dict from the i-th
\* on, separated by ", "
DumpItems(items, i, keyed) ==
    IF i > Len(items) THEN <<>>
    ELSE (IF i > 1 THEN <<",", " ">> ELSE <<>>)
         \o (IF keyed THEN <<"\"", KeyText[i], "\"", ":", " ">> ELSE <<>>)
         \o JsonDumps(items[i])
         \o DumpItems(items, i + 1, keyed)

\* json.dumps(val) for a value _clean_for_json returned
JsonDumps(val) ==
    IF val.t = "None" THEN <<"n", "u", "l", "l">>
    ELSE IF val.t = "int" THEN Str(val.v)
    ELSE IF val.t = "float" THEN <<"1", ".", "5">>
    ELSE IF val.t = "nan" THEN <<"N", "a", "N">>
    ELSE IF val.t = "str" THEN <<"\"">> \o StrText[val.v] \o <<"\"">>
    ELSE IF val.t = "list" THEN <<"[">> \o DumpItems(val.items, 1, FALSE) \o <<"]">>
    ELSE <<"{">> \o DumpItems(val.items, 1, TRUE) \o <<"}">>

\* the characters of JSON texts and their UTF-8 (ASCII) codes
Chars ==
    << <<"{", 123>>, <<"}", 125>>, <<"[", 91>>, <<"]", 93>>, <<",", 44>>,
       <<":", 58>>, <<" ", 32>>, <<"\"", 34>>, <<"-", 45>>, <<".", 46>>,
       <<"0", 48>>, <<"1", 49>>, <<"2", 50>>, <<"3", 51>>, <<"4", 52>>,
       <<"5", 53>>, <<"6", 54>>, <<"7", 55>>, <<"8", 56>>, <<"9", 57>>,
       <<"n", 110>>, <<"u", 117>>, <<"l", 108>>, <<"N", 78>>, <<"a", 97>>,
       <<"b", 98>>, <<"c", 99>>, <<"d", 100>>, <<"s", 115>>, <<"z", 122>>,
       <<"M", 77>>, <<"=", 61>> >>

\* str.encode("utf-8")
Utf8Encode(text) ==
    [i \in 1..Len(text) |->
        Chars[CHOOSE k \in 1..Len(Chars) : Chars[k][1] = text[i]][2]]

\* whether bytes.decode("utf-8") gives a text of the characters above
IsText(b) == \A i \in 1..Len(b) : \E k \in 1..Len(Chars) : Chars[k][2] = b[i]

\* bytes.decode("utf-8")
Utf8Decode(b) ==
    [i \in 1..Len(b) |-> Chars[CHOOSE k \in 1..Len(Chars) : Chars[k][2] = b[i]][1]]

\* text without its leading spaces
RECURSIVE SkipSpace(_)
SkipSpace(text) ==
    IF Len(text) > 0 /\ text[1] = " " THEN SkipSpace(Tail(text)) ELSE text

\* the length of the longest prefix of text made of the characters in S
RECURSIVE PrefixLen(_, _)
PrefixLen(text, S) ==
    IF Len(text) > 0 /\ text[1] \in S THEN 1 + PrefixLen(Tail(text), S) ELSE 0

ParseFailed == [ok |-> FALSE, val |-> NoneVal, rest |-> <<>>]
Parsed(val, rest) == [ok |-> TRUE, val |-> val, rest |-> rest]

\* whether text begins with the characters of word
StartsWith(text, word) ==
    Len(text) >= Len(word) /\ SubSeq(text, 1, Len(word)) = word

\* text after its first n characters
Drop(text, n) == SubSeq(text, n + 1, Len(text))

RECURSIVE ParseValue(_)
RECURSIVE ParseItems(_, _, _)
\* the items of an array (keyed = FALSE) or the members of an object, after
\* the opening bracket; acc holds the values parsed so far
ParseItems(text, acc, keyed) ==
    LET close == IF keyed THEN "}" ELSE "]"
        t0 == SkipSpace(text)
    IN  IF Len(t0) = 0 THEN ParseFailed
        ELSE IF t0[1] = close
          THEN (IF Len(acc) = 0 THEN Parsed(Val(IF keyed THEN "dict" ELSE "list", 0, acc),
                                            Tail(t0))
                ELSE ParseFailed)
        ELSE LET key == <<"\"", KeyText[Len(acc) + 1], "\"">>
                 t1 == IF keyed /\ StartsWith(t0, key) THEN SkipSpace(Drop(t0, 3)) ELSE t0
                 t2 == IF keyed /\ Len(t1) > 0 /\ t1[1] = ":" THEN Tail(t1) ELSE t1
                 keyok == ~keyed \/ (StartsWith(t0, key) /\ Len(t1) > 0 /\ t1[1] = ":")
                 r == ParseValue(t2)
                 t3 == SkipSpace(r.rest)
                 acc1 == Append(acc, r.val)
             IN  IF ~keyok \/ ~r.ok \/ Len(t3) = 0 THEN ParseFailed
                 ELSE IF t3[1] = close
                   THEN Parsed(Val(IF keyed THEN "dict" ELSE "list", 0, acc1), Tail(t3))
                 ELSE IF t3[1] = "," /\ Len(acc1) < Len(KeyText)
                   THEN ParseItems(Tail(t3), acc1, keyed)
                 ELSE ParseFailed

\* the JSON value at the head of text, and the text after it
ParseValue(text) ==
    LET t0 == SkipSpace(text)
    IN  IF Len(t0) = 0 THEN ParseFailed
        ELSE IF StartsWith(t0, <<"n", "u", "l", "l">>) THEN Parsed(NoneVal, Drop(t0, 4))
        ELSE IF StartsWith(t0, <<"N", "a", "N">>) THEN Parsed(NanVal, Drop(t0, 3))
        ELSE IF t0[1] = "\""
          THEN LET n == FirstIndex(Tail(t0), "\"")
                   body == SubSeq(t0, 2, n)
               IN  IF n = 0 \/ ~(\E i \in 1..Len(StrText) : StrText[i] = body)
                     THEN ParseFailed
                     ELSE Parsed(StrVal(CHOOSE i \in 1..Len(StrText) : StrText[i] = body),
                                 Drop(t0, n + 1))
        ELSE IF t0[1] = "-" \/ IsDigit(t0[1])
          THEN LET n == PrefixLen(t0, {"-", "."} \cup {Digits[i] : i \in 1..10})
                   num == SubSeq(t0, 1, n)
               IN  IF num = <<"1", ".", "5">> THEN Parsed(FloatVal, Drop(t0, n))
                   ELSE IF IsIntLiteral(num) THEN Parsed(IntVal(IntOf(num)), Drop(t0, n))
                   ELSE ParseFailed
        ELSE IF t0[1] = "[" THEN ParseItems(Tail(t0), <<>>, FALSE)
        ELSE IF t0[1] = "{" THEN ParseItems(Tail(t0), <<>>, TRUE)
        ELSE ParseFailed

\* json.loads(alert_bytes)
JsonLoads(b) ==
    IF ~IsText(b) THEN Raised("JSONDecodeError")
    ELSE LET r == ParseValue(Utf8Decode(b))
         IN  IF r.ok /\ SkipSpace(r.rest) = <<>> THEN Returned(<<>>, r.val)
             ELSE Raised("JSONDecodeError")

\* Serializers.serialize_json
SerializeJson(x) ==
    LET c == CleanForJson(x)
    IN  IF c = RaisedTypeError THEN Raised("TypeError")
        ELSE Returned(Utf8Encode(JsonDumps(c)), NoneVal)

\* Serializers.deserialize_avro: fastavro.reader raises ValueError("cannot read
\* header - is it an avro file?") unless the bytes begin with the magic of an
\* Avro container file, b"Obj\x01"
IsAvroFile(b) == Len(b) >= 4 /\ SubSeq(b, 1, 4) = <<79, 98, 106, 1>>

\* ---------------------------------------------------------------- base64
\* the base64 alphabet
B64Alphabet ==
    <<"A", "B", "C", "D", "E", "F", "G", "H", "I", "J", "K", "L", "M", "N", "O", "P",
      "Q", "R", "S", "T", "U", "V", "W", "X", "Y", "Z", "a", "b", "c", "d", "e", "f",
      "g", "h", "i", "j", "k", "l", "m", "n", "o", "p", "q", "r", "s", "t", "u", "v",
      "w", "x", "y", "z", "0", "1", "2", "3", "4", "5", "6", "7", "8", "9", "+", "/">>

RECURSIVE B64Encode(_)
\* base64.b64encode(b).decode("utf-8"): three bytes are four characters, and
\* "=" fills the last group
B64Encode(b) ==
    IF Len(b) = 0 THEN <<>>
    ELSE IF Len(b) = 1
      THEN <<B64Alphabet[(b[1] \div 4) + 1], B64Alphabet[((b[1] % 4) * 16) + 1], "=", "=">>
    ELSE IF Len(b) = 2
      THEN <<B64Alphabet[(b[1] \div 4) + 1],
             B64Alphabet[((b[1] % 4) * 16) + (b[2] \div 16) + 1],
             B64Alphabet[((b[2] % 16) * 4) + 1], "=">>
    ELSE <<B64Alphabet[(b[1] \div 4) + 1],
           B64Alphabet[((b[1] % 4) * 16) + (b[2] \div 16) + 1],
           B64Alphabet[((b[2] % 16) * 4) + (b[3] \div 64) + 1],
           B64Alphabet[(b[3] % 64) + 1]>> \o B64Encode(SubSeq(b, 4, Len(b)))

\* ---------------------------------------------------------------- Avro files
\* Cast.avro_to_dict(bytes_data) for bytes: [r for r in fastavro.reader(fin)][0]
AvroToDict(b) ==
    IF ~IsAvroFile(b) THEN Raised("ValueError")
    ELSE LET nf == ReadVarint(SubSeq(b, 5, Len(b)))
             nr == ReadVarint(nf.rest)
             r == ReadLongs(nr.rest, UnZigZag(nf.n))
         IN  IF ~nf.ok \/ ~nr.ok THEN Raised("EOFError")
             ELSE IF UnZigZag(nr.n) = 0 THEN Raised("IndexError")
             ELSE IF ~r.ok THEN Raised("EOFError")
             ELSE Returned(<<>>, DictVal(r.items))

\* ---------------------------------------------------------------- Alert values
\* types_.PubsubMessageLike(data, attributes, message_id, publish_time,
\* ordering_key), or a google.cloud.pubsub_v1 PubsubMessage; data is bytes
\* (t = "bytes", the bytes in b) or a str (t = "str", its characters in b),
\* attributes is a reference into heap, 0 for None
PubsubMessageLike(data, attributes, message_id, publish_time, ordering_key) ==
    [data |-> data, attributes |-> attributes, message_id |-> message_id,
     publish_time |-> publish_time, ordering_key |-> ordering_key]

\* Alert.msg is None
NoMsg == PubsubMessageLike([t |-> "no msg", b |-> <<>>], 0, "None", <<>>, "None")

\* an entry of a schema map: a str (t = "str", the name in path), a list of
\* names (t = "list") or no entry (t = "None")
MapEntry(t, path) == [t |-> t, path |-> path]

NoEntry == MapEntry("None", <<>>)

\* the generic field names looked up: the three identifiers, and "a", a generic
\* name that is also the first key of every non-empty record
Fields == {"a", "alertid", "objectid", "sourceid"}

\* the entries a map gives a field: none, a single name, and paths of two,
\* three and four names
MapEntries ==
    {NoEntry, MapEntry("str", <<"b">>), MapEntry("list", <<"a", "a">>),
     MapEntry("list", <<"b", "a", "a">>), MapEntry("list", <<"a", "a", "a", "a">>)}

\* Schema._map is None: the map was not loaded yet
NoMap == [f \in Fields |-> MapEntry("unloaded", <<>>)]

\* the records given to Alert.from_dict
Payloads ==
    {DictVal(<<>>),
     DictVal(<<IntVal(64)>>),
     DictVal(<<DictVal(<<IntVal(-1)>>), IntVal(64)>>),
     DictVal(<<DictVal(<<>>), DictVal(<<DictVal(<<IntVal(64)>>)>>)>>),
     DictVal(<<NoneVal, DictVal(<<DictVal(<<>>)>>)>>),
     DictVal(<<DictVal(<<IntVal(64)>>)>>)}

\* the payloads of messages: of each record the JSON text and the Avro file
\* fastavro.writer(fout, schema, records) makes (here the magic, the number of
\* fields of the writer's schema, and one block with the number of records
\* and the records of longs; the metadata map and the sync markers of the
\* file format are left out), an Avro file without records, and bytes that
\* are neither
MessageData ==
    LET records == {DictVal(<<IntVal(7)>>), DictVal(<<IntVal(-1), IntVal(64)>>)}
        writer(nfields, recs) ==
            <<79, 98, 106, 1>> \o Varint(ZigZag(nfields)) \o Varint(ZigZag(Len(recs)))
                \o (IF Len(recs) = 0 THEN <<>> ELSE WriteLongs(recs[1].items))
    IN  {Utf8Encode(JsonDumps(x)) : x \in records}
        \cup {writer(Len(x.items), <<x>>) : x \in records}
        \cup {writer(1, <<>>), <<0, 1>>}

\* the keys of attribute dicts: a key of the publisher's, and the names
\* add_id_attributes makes of map entries
AttrKeys ==
    {<<"k">>} \cup {JoinStr([i \in 1..Len(e.path) |-> <<e.path[i]>>], ".") :
                       e \in MapEntries \ {NoEntry}}

\* an attribute dict: the value of each key, NoValue for a key it lacks
NoAttributes == [k \in AttrKeys |-> NoValue]

\* the "message" of a push envelope: the keys it has, its data (base64 text),
\* its attributes and its publish_time (the parts of the text); this one
\* stands for an envelope without "message"
NoMessage == [keys |-> {}, data |-> <<>>, attributes |-> NoAttributes, publish_time |-> <<>>]

\* the envelopes a request can carry, each with its Python type, whether it is
\* truthy, and its "message": None, the empty and the non-empty objects that
\* are no mapping, mappings without "message", and mappings whose message has
\* any set of the keys, with publish_time as Pub/Sub writes it, with and
\* without fractional seconds
Envelopes ==
    {[t |-> t, truthy |-> b, message |-> NoMessage] :
        t \in {"list", "str", "int", "dict"}, b \in BOOLEAN}
    \cup {[t |-> "None", truthy |-> FALSE, message |-> NoMessage]}
    \cup {[t |-> "dict", truthy |-> TRUE,
           message |-> [keys |-> keys,
                        data |-> B64Encode(Utf8Encode(JsonDumps(DictVal(<<IntVal(7)>>)))),
                        attributes |-> [NoAttributes EXCEPT ![<<"k">>] = StrVal(1)],
                        publish_time |-> pt]] :
            keys \in SUBSET {"data", "attributes", "message_id", "publish_time",
                             "ordering_key"},
            pt \in {<<"2023-01-01", "T", "00:00:00", ".", "000000", "Z">>,
                    <<"2023-01-01", "T", "00:00:00", "Z">>}}

\* the fields of an Alert (msg, _attributes, _dict, schema_name, _schema), the
\* _map of its schema, and whether the constructor returned it
AlertObject(msg, _attributes, _dict, name, _schema) ==
    [made |-> TRUE, msg |-> msg, _attributes |-> _attributes, _dict |-> _dict,
     schema_name |-> name, _schema |-> _schema, _map |-> NoMap]

NoAlert == [AlertObject(NoMsg, 0, NoValue, <<>>, NoSchema) EXCEPT !.made = FALSE]

\* no Alert was made yet
AlertIdle ==
    /\ apc = "idle"
    /\ args = <<>>
    /\ alert = NoAlert
    /\ heap = <<>>
    /\ envelope = [t |-> "unset", truthy |-> FALSE, message |-> NoMessage]
    /\ attributes0 = NoAttributes
    /\ decodes = 0
    /\ ret = NoValue
    /\ aexc = "none"

\* ---------------------------------------------------------------- Init
\* no library call was made yet
LibIdle ==
    /\ lpc = "idle"
    /\ schema = NoSchema
    /\ alert_bytes = <<>>
    /\ alert_dict = NoValue
    /\ out_bytes = <<>>
    /\ out_dict = NoValue
    /\ lexc = "none"
    /\ schema_name = <<"unset">>
    /\ got = "unset"
    /\ value = NoValue
    /\ cleaned = NoValue

\* a Consumer on which nothing was called yet
ConsumerNew ==
    /\ max_backlog = backlog_arg
    /\ results = <<>>
    /\ _block = TRUE
    /\ _proceed = FALSE
    /\ _queue = <<>>
    /\ unfinished = 0
    /\ streaming_pull_future = "none"
    /\ max_messages = 0
    /\ fpc = "idle"
    /\ total_count = 0
    /\ item = 0
    /\ escaped = "none"
    /\ raised = "none"
    /\ stops = 0
    /\ timed_out = FALSE
    /\ wpc = [d \in Msgs |-> "undelivered"]
    /\ response = [d \in Msgs |-> Response(FALSE, "unset")]
    /\ count = [d \in Msgs |-> Unbound]
    /\ acks = [d \in Msgs |-> 0]
    /\ nacks = [d \in Msgs |-> 0]
    /\ cb_calls = [d \in Msgs |-> 0]
    /\ cb_raised = [d \in Msgs |-> FALSE]
    /\ unpack_error = [d \in Msgs |-> FALSE]
    /\ wexc = [d \in Msgs |-> "none"]
    /\ active_pulls = 0

Init ==
    /\ max_results \in {None} \cup (1..MaxResultsBound)
    /\ timeout \in {None, 1}
    /\ backlog_arg \in 1..MaxBacklogBound
    /\ user_callback \in BOOLEAN
    /\ user_kwargs \in {"empty", "nonempty"}
    /\ ConsumerNew
    /\ LibIdle
    /\ AlertIdle

\* the library on its own: one Consumer, left alone
LibInit ==
    /\ max_results = None
    /\ timeout = None
    /\ backlog_arg = 1
    /\ user_callback = FALSE
    /\ user_kwargs = "empty"
    /\ ConsumerNew
    /\ LibIdle
    /\ AlertIdle

\* ---------------------------------------------------------------- foreground
\* stream(block), lines 908-930: set _block, coerce the backlog, confirm, open
\* the streaming pull and store its handle, and return at once when block is
\* False; `declined` is where the caller stands when stream() returns without
\* having opened anything
StreamCall(b, answer, declined) ==
    /\ _block' = b
    /\ max_backlog' = BacklogLeResults(max_backlog, max_results)
    /\ _proceed' = ConfirmNoUserCallback(user_callback, answer)
    /\ IF _proceed'
         THEN /\ streaming_pull_future' = "open"
              /\ active_pulls' = active_pulls + 1
              /\ max_messages' = max_backlog'
              /\ fpc' = IF b THEN "get" ELSE "background"
         ELSE /\ UNCHANGED <<streaming_pull_future, max_messages, active_pulls>>
              /\ fpc' = declined
    /\ UNCHANGED <<alertvars, libvars, cfgvars, results, _queue, unfinished, total_count, item,
                   escaped, raised, stops, timed_out, wkvars>>

\* the first stream() call on a new Consumer
Stream(b, answer) ==
    /\ fpc = "idle"
    /\ StreamCall(b, answer, "returned")

\* a second stream() call, made after stream(block=False) returned and before
\* any stop(): stream() has no test of the handle it already stores
StreamAgain(b, answer) ==
    /\ fpc = "background"
    /\ active_pulls < MaxPulls
    /\ StreamCall(b, answer, "background")

\* a stream() call on a Consumer whose earlier run has stopped (stream()
\* returned or raised, or the caller's stop() returned): the same steps on the
\* same object, whose _queue and results are the ones made by the constructor
\* (attrs factories, lines 693-706; stream() makes no new ones), and
\* _manage_flow starts from total_count = 0 (line 998)
StreamAfterStop(b, answer) ==
    /\ fpc \in {"returned", "raised", "stopped"}
    /\ streaming_pull_future = "shutdown"
    /\ stops + active_pulls < MaxPulls
    /\ _block' = b
    /\ max_backlog' = BacklogLeResults(max_backlog, max_results)
    /\ _proceed' = ConfirmNoUserCallback(user_callback, answer)
    /\ IF _proceed'
         THEN /\ streaming_pull_future' = "open"
              /\ active_pulls' = active_pulls + 1
              /\ max_messages' = max_backlog'
              /\ fpc' = IF b THEN "get" ELSE "background"
         ELSE /\ UNCHANGED <<streaming_pull_future, max_messages, active_pulls>>
              /\ fpc' = "returned"
    /\ total_count' = 0
    /\ item' = 0
    /\ escaped' = "none"
    /\ raised' = "none"
    /\ timed_out' = FALSE
    /\ UNCHANGED <<alertvars, libvars, cfgvars, results, _queue, unfinished, stops, wkvars>>

\* _manage_flow: total_count += self._queue.get(block=True, timeout=self.timeout)
ManageFlowGet ==
    /\ fpc = "get"
    /\ _queue # <<>>
    /\ item' = Head(_queue).msg
    /\ total_count' = total_count + Head(_queue).count
    /\ _queue' = Tail(_queue)
    /\ fpc' = "task_done"
    /\ UNCHANGED <<alertvars, libvars, active_pulls, cfgvars, max_backlog, results, _block, _proceed, unfinished,
                   streaming_pull_future, max_messages, escaped, raised, stops,
                   timed_out, wkvars>>

\* a _manage_flow whose queue.Empty handler goes round the loop again
ManageFlowEmptyContinue ==
    /\ fpc = "get"
    /\ _queue = <<>>
    /\ timeout # None
    /\ timed_out' = TRUE
    /\ fpc' = "get"
    /\ UNCHANGED <<alertvars, libvars, active_pulls, cfgvars, convars, total_count, item, escaped, raised, stops,
                   wkvars>>

\* _manage_flow: the wait on the queue ends with queue.Empty -> break
ManageFlowEmpty ==
    /\ fpc = "get"
    /\ _queue = <<>>
    /\ timeout # None
    /\ timed_out' = TRUE
    /\ fpc' = "stop"
    /\ UNCHANGED <<alertvars, libvars, active_pulls, cfgvars, convars, total_count, item, escaped, raised, stops,
                   wkvars>>

\* _manage_flow: self._queue.task_done(), then the max_results test
ManageFlowTaskDone ==
    /\ fpc = "task_done"
    /\ unfinished' = unfinished - 1
    /\ IF max_results = None
         THEN \* total_count >= None raises TypeError
              /\ escaped' = "TypeError"
              /\ fpc' = "except"
              /\ item' = item
         ELSE /\ escaped' = escaped
              /\ item' = 0
              /\ fpc' = IF MaxResultsReached(max_results, total_count)
                           THEN "stop" ELSE "get"
    /\ UNCHANGED <<alertvars, libvars, active_pulls, cfgvars, max_backlog, results, _block, _proceed, _queue,
                   streaming_pull_future, max_messages, total_count, raised,
                   stops, timed_out, wkvars>>

\* Ctrl-C while the foreground thread waits in _queue.get
KeyboardInterrupt ==
    /\ fpc = "get"
    /\ escaped' = "KeyboardInterrupt"
    /\ fpc' = "except"
    /\ UNCHANGED <<alertvars, libvars, active_pulls, cfgvars, convars, total_count, item, raised, stops, timed_out,
                   wkvars>>

\* stop(), first statement: self.streaming_pull_future.cancel()
StopCancel(to) ==
    /\ stops' = stops + 1
    /\ streaming_pull_future' = "cancelled"
    /\ active_pulls' = active_pulls - 1
    /\ fpc' = to
    /\ UNCHANGED <<alertvars, libvars, cfgvars, max_backlog, results, _block, _proceed, _queue, unfinished,
                   max_messages, total_count, item, escaped, raised, timed_out,
                   wkvars>>

\* stop(), second statement: self.streaming_pull_future.result() returns once the
\* transport has shut the streaming pull down. subscribe() is called without
\* await_callbacks_on_shutdown, so the shutdown does not wait for callbacks
\* that are still running
StopResult(to) ==
    /\ streaming_pull_future = "cancelled"
    /\ streaming_pull_future' = "shutdown"
    /\ fpc' = to
    /\ UNCHANGED <<alertvars, libvars, active_pulls, cfgvars, max_backlog, results, _block, _proceed, _queue, unfinished,
                   max_messages, total_count, item, escaped, stops, timed_out,
                   wkvars>>

\* stream(): `self.stop()` in the try, after _manage_flow returned
StreamStop ==
    /\ fpc = "stop"
    /\ StopCancel("stop_result")

\* stream(): the stop() of the try returns, and stream() returns
StreamReturn ==
    /\ fpc = "stop_result"
    /\ StopResult("returned")
    /\ raised' = raised

\* a stream() whose handler re-raises without calling stop()
StreamExceptNoStop ==
    /\ fpc = "except"
    /\ fpc' = "raised"
    /\ raised' = escaped
    /\ UNCHANGED <<alertvars, libvars, active_pulls, cfgvars, convars, total_count, item, escaped, stops, timed_out,
                   wkvars>>

\* stream(): `except (KeyboardInterrupt, Exception): self.stop()`
StreamExcept ==
    /\ fpc = "except"
    /\ StopCancel("except_result")

\* stream(): the stop() of the handler returns, then `raise`
StreamReraise ==
    /\ fpc = "except_result"
    /\ StopResult("raised")
    /\ raised' = escaped

\* the caller's consumer.stop() after stream(block=False)
UserStop ==
    /\ fpc = "background"
    /\ StopCancel("user_stop_result")

\* the caller's consumer.stop() returns
UserStopReturn ==
    /\ fpc = "user_stop_result"
    /\ StopResult("stopped")
    /\ raised' = raised

\* ---------------------------------------------------------------- workers
\* the transport hands the next message to callback() on a worker thread, while
\* the streaming pull is open and flow control allows it
Delivered(d) ==
    /\ streaming_pull_future = "open"
    /\ wpc[d] = "undelivered"
    /\ \A e \in Msgs : e < d => wpc[e] # "undelivered"
    /\ Outstanding < max_messages

\* _execute_user_callback: the Response for what the user callback did
ExecuteUserCallback(out) == IF out = Raises THEN Response(FALSE, "None") ELSE out

\* a callback() whose handler nacks but does not return, and goes on to
\* handle_response as if no user callback was set
UnpackFailsNoReturn(d) ==
    /\ Delivered(d)
    /\ unpack_error' = [unpack_error EXCEPT ![d] = TRUE]
    /\ nacks' = [nacks EXCEPT ![d] = @ + 1]
    /\ response' = [response EXCEPT ![d] = Response(TRUE, "None")]
    /\ count' = [count EXCEPT ![d] = 1]
    /\ wpc' = [wpc EXCEPT ![d] = "communicate"]
    /\ UNCHANGED <<alertvars, libvars, active_pulls, cfgvars, convars, fgvars, acks, cb_calls, cb_raised, wexc>>

\* callback(), lines 1019-1029: _unpack_msg raises; nack the message and return
UnpackFails(d) ==
    /\ Delivered(d)
    /\ unpack_error' = [unpack_error EXCEPT ![d] = TRUE]
    /\ nacks' = [nacks EXCEPT ![d] = @ + 1]
    /\ wpc' = [wpc EXCEPT ![d] = "done"]
    /\ UNCHANGED <<alertvars, libvars, active_pulls, cfgvars, convars, fgvars, response, count, acks, cb_calls,
                   cb_raised, wexc>>

\* a handle_response that looks at Response.ack too: it counts and stores only
\* for a Response that asks for the ack
ClassifyAcked(d, r) ==
    /\ response' = [response EXCEPT ![d] = r]
    /\ count' = [count EXCEPT ![d] = IF r.ack THEN CountOf(r.result) ELSE 0]
    /\ results' = IF r.ack /\ Stored(r.result) THEN Append(results, d) ELSE results
    /\ wpc' = [wpc EXCEPT ![d] = "communicate"]
    /\ wexc' = wexc

\* handle_response, lines 1154-1174, for message d and Response r: count and
\* store; when that raises, the handler's response._replace(ack=False) raises
\* AttributeError unless the object has a _replace method
Classify(d, r) ==
    IF r.result # "missing"
      THEN /\ response' = [response EXCEPT ![d] = r]
           /\ count' = [count EXCEPT ![d] = CountOf(r.result)]
           /\ results' = IF Stored(r.result) THEN Append(results, d) ELSE results
           /\ wpc' = [wpc EXCEPT ![d] = "communicate"]
           /\ wexc' = wexc
      ELSE /\ UNCHANGED <<count, results>>
           /\ IF r.has_replace
                THEN /\ response' = [response EXCEPT ![d] = [r EXCEPT !.ack = FALSE]]
                     /\ wpc' = [wpc EXCEPT ![d] = "communicate"]
                     /\ wexc' = wexc
                ELSE /\ response' = [response EXCEPT ![d] = r]
                     /\ wexc' = [wexc EXCEPT ![d] = "AttributeError"]
                     /\ wpc' = [wpc EXCEPT ![d] = "escaped"]

\* callback() with a user callback, lines 1032-1033 and 1040: the call
\* self._execute_user_callback(alert, **self.user_kwargs) raises TypeError when
\* user_kwargs is not empty (the method takes no keyword arguments); otherwise
\* the user callback runs once, returns `out` or raises, and handle_response
\* classifies the Response
CallbackUser(d, out) ==
    /\ Delivered(d)
    /\ user_callback
    /\ IF user_kwargs # "empty"
         THEN /\ wpc' = [wpc EXCEPT ![d] = "escaped"]
              /\ wexc' = [wexc EXCEPT ![d] = "TypeError"]
              /\ UNCHANGED <<response, count, results, cb_calls, cb_raised>>
         ELSE /\ cb_calls' = [cb_calls EXCEPT ![d] = @ + 1]
              /\ cb_raised' = [cb_raised EXCEPT ![d] = (out = Raises)]
              /\ Classify(d, ExecuteUserCallback(out))
    /\ UNCHANGED <<alertvars, libvars, active_pulls, cfgvars, max_backlog, _block, _proceed, _queue, unfinished,
                   streaming_pull_future, max_messages, fgvars, acks, nacks,
                   unpack_error>>

\* a callback() that, without a user callback, hands the alert on as the result
CallbackNoUserStores(d) ==
    /\ Delivered(d)
    /\ ~user_callback
    /\ Classify(d, Response(TRUE, "value"))
    /\ UNCHANGED <<alertvars, libvars, active_pulls, cfgvars, max_backlog, _block, _proceed, _queue, unfinished,
                   streaming_pull_future, max_messages, fgvars, acks, nacks,
                   cb_calls, cb_raised, unpack_error>>

\* callback() without a user callback, lines 1035-1040:
\* Response(ack=True, result=None) goes to handle_response
CallbackNoUser(d) ==
    /\ Delivered(d)
    /\ ~user_callback
    /\ Classify(d, Response(TRUE, "None"))
    /\ UNCHANGED <<alertvars, libvars, active_pulls, cfgvars, max_backlog, _block, _proceed, _queue, unfinished,
                   streaming_pull_future, max_messages, fgvars, acks, nacks,
                   cb_calls, cb_raised, unpack_error>>

\* a handle_response that talks to the main thread whatever _block is
UsesQueueAlways == TRUE

\* handle_response, line 1177: `if self._block:`
UsesQueue == _block

\* handle_response, lines 1177-1181: in blocking mode put the count on the
\* queue (reading an unassigned count raises UnboundLocalError), and go on to
\* join the queue when max_results is set
Communicate(d) ==
    /\ wpc[d] = "communicate"
    /\ IF ~UsesQueue
         THEN /\ wpc' = [wpc EXCEPT ![d] = "ack_or_nack"]
              /\ UNCHANGED <<_queue, unfinished, wexc>>
         ELSE IF count[d] = Unbound
         THEN /\ wpc' = [wpc EXCEPT ![d] = "escaped"]
              /\ wexc' = [wexc EXCEPT ![d] = "UnboundLocalError"]
              /\ UNCHANGED <<_queue, unfinished>>
         ELSE /\ _queue' = Append(_queue, [msg |-> d, count |-> count[d]])
              /\ unfinished' = unfinished + 1
              /\ wpc' = [wpc EXCEPT ![d] =
                    IF max_results # None THEN "join" ELSE "ack_or_nack"]
              /\ wexc' = wexc
    /\ UNCHANGED <<alertvars, libvars, active_pulls, cfgvars, max_backlog, results, _block, _proceed,
                   streaming_pull_future, max_messages, fgvars, response, count,
                   acks, nacks, cb_calls, cb_raised, unpack_error>>

\* handle_response, line 1181: self._queue.join() returns when no put item is
\* left without its task_done()
Join(d) ==
    /\ wpc[d] = "join"
    /\ unfinished = 0
    /\ wpc' = [wpc EXCEPT ![d] = "ack_or_nack"]
    /\ UNCHANGED <<alertvars, libvars, active_pulls, cfgvars, convars, fgvars, response, count, acks, nacks,
                   cb_calls, cb_raised, unpack_error, wexc>>

\* handle_response, lines 1184-1189: ack or nack, then `return count`
AckOrNack(d) ==
    /\ wpc[d] = "ack_or_nack"
    /\ IF response[d].ack
         THEN /\ acks' = [acks EXCEPT ![d] = @ + 1]
              /\ nacks' = nacks
         ELSE /\ nacks' = [nacks EXCEPT ![d] = @ + 1]
              /\ acks' = acks
    /\ IF count[d] = Unbound
         THEN /\ wpc' = [wpc EXCEPT ![d] = "escaped"]
              /\ wexc' = [wexc EXCEPT ![d] = "UnboundLocalError"]
         ELSE /\ wpc' = [wpc EXCEPT ![d] = "done"]
              /\ wexc' = wexc
    /\ UNCHANGED <<alertvars, libvars, active_pulls, cfgvars, convars, fgvars, response, count, cb_calls, cb_raised,
                   unpack_error>>

\* ---------------------------------------------------------------- specification
Next ==
    \/ \E b \in BOOLEAN, answer \in BOOLEAN : Stream(b, answer)
    \/ ManageFlowGet
    \/ ManageFlowEmpty
    \/ ManageFlowTaskDone
    \/ KeyboardInterrupt
    \/ StreamStop
    \/ StreamReturn
    \/ StreamExcept
    \/ StreamReraise
    \/ UserStop
    \/ UserStopReturn
    \/ \E d \in Msgs : UnpackFails(d)
    \/ \E d \in Msgs, out \in UserReturns \cup {Raises} : CallbackUser(d, out)
    \/ \E d \in Msgs : CallbackNoUser(d)
    \/ \E d \in Msgs : Communicate(d)
    \/ \E d \in Msgs : Join(d)
    \/ \E d \in Msgs : AckOrNack(d)

Spec == Init /\ [][Next]_vars

\* the Consumer whose caller may call stream() again while it is streaming
NextReentry ==
    \/ Next
    \/ \E b \in BOOLEAN, answer \in BOOLEAN : StreamAgain(b, answer)

SpecReentry == Init /\ [][NextReentry]_vars

\* the Consumer whose caller may call stream() once more after a run has stopped
NextRestart ==
    \/ Next
    \/ \E b \in BOOLEAN, answer \in BOOLEAN : StreamAfterStop(b, answer)

SpecRestart == Init /\ [][NextRestart]_vars

\* the Consumer whose threads keep running: a worker thread that can take its
\* next step in handle_response takes it, and so does the foreground thread in
\* _manage_flow and stream(), where a wait on an empty queue ends with the
\* timeout, if one is set. Whether messages arrive, what the user callback
\* returns and Ctrl-C stay open
SpecFair ==
    /\ Init
    /\ [][Next]_vars
    /\ \A d \in Msgs : WF_vars(Communicate(d)) /\ WF_vars(Join(d)) /\ WF_vars(AckOrNack(d))
    /\ WF_vars(ManageFlowGet) /\ WF_vars(ManageFlowTaskDone) /\ WF_vars(ManageFlowEmpty)
    /\ WF_vars(StreamStop) /\ WF_vars(StreamReturn)
    /\ WF_vars(StreamExcept) /\ WF_vars(StreamReraise)

\* ---------------------------------------------------------------- schemas
\* `exceptions.SchemaError`: src/pittgoogle/exceptions.py defines BadRequest,
\* CloudConnectionError, OpenAlertError and SchemaNotFoundError and no
\* SchemaError, so evaluating the attribute raises AttributeError before any
\* SchemaError can be made
exceptions_SchemaError == "AttributeError"

\* the versions LsstSchema._from_yaml accepts (line 469)
SupportedVersions ==
    {<<"v", "7", "_", m>> : m \in {"0", "1", "2", "3", "4"}}

\* fastavro.schema.load_schema(path) of the .avsc file of an LSST version
LoadLsstDefinition(major, minor) == <<"lsst">> \o major \o minor

\* a Schema object of class cls
SchemaObject(cls, name, version, version_id, definition) ==
    [cls |-> cls, name |-> name, version |-> version, version_id |-> version_id,
     definition |-> definition]

\* the schema ids put in the wire header
VersionIds ==
    ((0 - MaxVersionId)..MaxVersionId)
    \cup {1703, 7003, 7010, 7030, 70003, 2147483647, 0 - 2147483647}

\* LsstSchema._from_yaml, line 467: f"v{major}_{minor}"
LsstVersion(major, minor) == <<"v">> \o major \o <<"_">> \o minor

\* a schema id that is the version's parts glued without the "0"
LsstSchemaIdTextNoZero(version) == JoinStr(Split(Strip(version, "v"), "_"), "")

\* LsstSchema.serialize, line 493: "0".join(self.version.strip("v").split("_"))
LsstSchemaIdText(version) == JoinStr(Split(Strip(version, "v"), "_"), "0")

\* LsstSchema._from_yaml(yaml_dict, alert_bytes), lines 460-477, for the five
\* header bytes <<magic>> \o PackInt(id)
LsstSchemaFromYaml(magic, id) ==
    /\ lpc = "idle"
    /\ lpc' = "from_yaml"
    /\ alert_bytes' = <<magic>> \o PackInt(id)
    /\ LET version_id == UnpackInt(SubSeq(alert_bytes', 2, 5))
           parts == SplitOnce(Str(version_id), "0")
       IN  IF Len(parts) # 2
             THEN \* major, minor = [one string]: not enough values to unpack
                  /\ lexc' = "ValueError"
                  /\ schema' = NoSchema
             ELSE IF LsstVersion(parts[1], parts[2]) \notin SupportedVersions
             THEN /\ lexc' = exceptions_SchemaError
                  /\ schema' = NoSchema
             ELSE /\ lexc' = "none"
                  /\ schema' = SchemaObject("LsstSchema", <<"lsst">>,
                                            LsstVersion(parts[1], parts[2]), version_id,
                                            LoadLsstDefinition(parts[1], parts[2]))
    /\ UNCHANGED <<alertvars, consumervars, alert_dict, out_bytes, out_dict, schema_name, got,
                   value, cleaned>>

\* the definition given to a Schema made with its constructor
SomeDefinition == <<"elasticc">>

\* Schema(name=..., description=..., origin=..., version=..., definition=...):
\* the attrs constructor, lines 220-251; version and definition default to None
NewSchema(cls, version, definition) ==
    /\ lpc = "idle"
    /\ lpc' = "new"
    /\ schema' = SchemaObject(cls, <<"made">>, version, 0, definition)
    /\ lexc' = "none"
    /\ UNCHANGED <<alertvars, consumervars, alert_bytes, alert_dict, out_bytes, out_dict,
                   schema_name, got, value, cleaned>>

\* the classes whose serialize and deserialize are DefaultSchema's
JsonClasses == {"DefaultSchema", "LvkSchema", "ZtfSchema"}

\* Schema.serialize(alert_dict) by class: DefaultSchema lines 353-364,
\* ElasticcSchema lines 415-426, LsstSchema lines 479-496 with
\* Serializers.serialize_confluent_wire_avro lines 161-165
SerializeOf(sch, x, ferr) ==
    IF sch.cls \in JsonClasses THEN SerializeJson(x)
    ELSE IF sch.cls = "ElasticcSchema" THEN SchemalessWriter(sch.definition, x, ferr)
    ELSE IF sch.version = <<>>
      THEN \* self.version is None: None has no strip
           Raised("AttributeError")
    ELSE IF ~IsIntLiteral(LsstSchemaIdText(sch.version)) THEN Raised("ValueError")
    ELSE LET body == SchemalessWriter(sch.definition, x, ferr)
         IN  IF body.exc # "none" THEN body
             ELSE Returned(<<0>> \o PackInt(IntOf(LsstSchemaIdText(sch.version)))
                               \o body.bytes, NoneVal)

\* Schema.deserialize(alert_bytes) by class: DefaultSchema lines 366-389 (the
\* bytes of this model never begin with the magic of an Avro container file,
\* whose decoding is left out), ElasticcSchema lines 428-440, LsstSchema lines
\* 498-512 with Serializers.deserialize_confluent_wire_avro lines 185-186
DeserializeOf(sch, b, ferr) ==
    IF sch.cls \in JsonClasses
      THEN IF IsAvroFile(b) THEN Raised("container file")
           ELSE IF JsonLoads(b).exc # "none" THEN Raised(exceptions_SchemaError)
           ELSE JsonLoads(b)
    ELSE IF sch.cls = "ElasticcSchema" THEN SchemalessReader(sch.definition, b, ferr)
    ELSE SchemalessReader(sch.definition, Drop(b, 5), ferr)

\* a call of schema.serialize(x)
Serialize(x, ferr) ==
    /\ lpc \in {"from_yaml", "new", "get"}
    /\ schema # NoSchema
    /\ lpc' = "serialize"
    /\ alert_dict' = x
    /\ out_bytes' = SerializeOf(schema, x, ferr).bytes
    /\ lexc' = SerializeOf(schema, x, ferr).exc
    /\ UNCHANGED <<alertvars, consumervars, schema, alert_bytes, out_dict, schema_name, got,
                   value, cleaned>>

\* a call of schema.deserialize on the bytes serialize returned (none when it
\* raised or was not called)
Deserialize(ferr) ==
    /\ lpc \in {"from_yaml", "new", "get", "serialize"}
    /\ schema # NoSchema
    /\ lpc' = "deserialize"
    /\ alert_bytes' = out_bytes
    /\ out_dict' = DeserializeOf(schema, out_bytes, ferr).val
    /\ lexc' = DeserializeOf(schema, out_bytes, ferr).exc
    /\ UNCHANGED <<alertvars, consumervars, schema, alert_dict, out_bytes, schema_name, got,
                   value, cleaned>>

\* the loading of an LSST schema from message bytes, and its use
NextLsst ==
    \/ \E magic \in {0, 1}, id \in VersionIds : LsstSchemaFromYaml(magic, id)
    \/ \E x \in {DictVal(q) : q \in [1..MaxItems -> {IntVal(n) : n \in IntValues}]},
          ferr \in FastavroErrors : Serialize(x, ferr)
    \/ \E ferr \in FastavroErrors : Deserialize(ferr)

SpecLsst == LibInit /\ [][NextLsst]_vars

\* ---------------------------------------------------------------- registry
\* a schema name is the sequence of its dot-separated segments; <<>> is None
\* and <<"">> the empty string

\* registry.SCHEMA_MANIFEST: the names of the entries of schemas.yml, sorted.
\* The names are those the tests and docstrings load schemas by
SCHEMA_MANIFEST ==
    << <<"default">>, <<"elasticc">>, <<"lsst">>, <<"lvk">>, <<"ztf">> >>

\* the survey names
Surveys == {"elasticc", "lsst", "lvk", "ztf"}

\* the names Schemas.get is called with
SchemaNames ==
    {<<>>}
    \cup {<<n>> : n \in Surveys \cup {"", "default", "default_schema",
                                      "nonexistent_schema", "Lsst", "Ztf"}}
    \cup {<<n, v, "alert">> : n \in Surveys, v \in {"v0_9_1", "v7_1", "v7_4", "vNONE"}}

\* getattr(schema, schema_name[0].upper() + schema_name[1:] + "Schema"): the
\* class of pittgoogle.schema with that name, "none" when getattr raises
\* AttributeError (a name with a dot in it is no attribute name)
SchemaClassOf(name) ==
    IF Len(name) # 1 THEN "none"
    ELSE IF name[1] \in {"default", "Default"} THEN "DefaultSchema"
    ELSE IF name[1] \in {"elasticc", "Elasticc"} THEN "ElasticcSchema"
    ELSE IF name[1] \in {"lsst", "Lsst"} THEN "LsstSchema"
    ELSE IF name[1] \in {"lvk", "Lvk"} THEN "LvkSchema"
    ELSE IF name[1] \in {"ztf", "Ztf"} THEN "ZtfSchema"
    ELSE "none"

\* the manifest entries the loop of get() stops at: those with
\* manifest["name"].split(".")[0] == schema_name
ManifestHits(name) ==
    {k \in 1..Len(SCHEMA_MANIFEST) : Len(name) = 1 /\ SCHEMA_MANIFEST[k][1] = name[1]}

\* Schema._from_yaml(yaml_dict=manifest) as get() calls it, by class:
\* DefaultSchema (and LvkSchema, ZtfSchema) lines 336-351, ElasticcSchema lines
\* 410-413; LsstSchema._from_yaml has a second required parameter, alert_bytes,
\* that get() does not pass
FromYaml(cls, entry) ==
    IF cls = "LsstSchema" THEN [exc |-> "TypeError", schema |-> NoSchema]
    ELSE IF cls = "ElasticcSchema"
      THEN [exc |-> "none", schema |-> SchemaObject(cls, entry, <<>>, 0, SomeDefinition)]
    ELSE [exc |-> "none", schema |-> SchemaObject(cls, entry, <<>>, 0, <<>>)]

\* Schemas.get(schema_name), lines 91-105: the exception it raises, what it
\* returns ("Schema", "None") and the Schema
GetOutcome(name) ==
    LET n == IF name = <<>> THEN <<"default">> ELSE name
        cls == SchemaClassOf(n)
        hits == ManifestHits(n)
        first == CHOOSE k \in hits : \A j \in hits : k <= j
    IN  IF n = <<"">>
          THEN \* schema_name[0] of the empty string
               [exc |-> "IndexError", got |-> "raised", schema |-> NoSchema]
        ELSE IF cls = "none"
          THEN [exc |-> exceptions_SchemaError, got |-> "raised", schema |-> NoSchema]
        ELSE IF hits = {}
          THEN \* the loop ends and get() returns None
               [exc |-> "none", got |-> "None", schema |-> NoSchema]
        ELSE LET y == FromYaml(cls, SCHEMA_MANIFEST[first])
             IN  [exc |-> y.exc, got |-> IF y.exc = "none" THEN "Schema" ELSE "raised",
                  schema |-> y.schema]

\* a call of Schemas.get(name)
SchemasGet(name) ==
    /\ lpc = "idle"
    /\ lpc' = "get"
    /\ schema_name' = name
    /\ lexc' = GetOutcome(name).exc
    /\ got' = GetOutcome(name).got
    /\ schema' = GetOutcome(name).schema
    /\ UNCHANGED <<alertvars, consumervars, alert_bytes, alert_dict, out_bytes, out_dict,
                   value, cleaned>>

\* a call of Serializers._clean_for_json(v)
CleanForJsonCall(v) ==
    /\ lpc = "idle"
    /\ lpc' = "clean"
    /\ value' = v
    /\ IF CleanForJson(v) = RaisedTypeError
         THEN /\ lexc' = "TypeError"
              /\ cleaned' = NoValue
         ELSE /\ lexc' = "none"
              /\ cleaned' = CleanForJson(v)
    /\ UNCHANGED <<alertvars, consumervars, schema, alert_bytes, alert_dict, out_bytes, out_dict,
                   schema_name, got>>

\* the registry, the codecs of each class of Schema, and the JSON cleaning
NextLib ==
    \/ \E name \in SchemaNames : SchemasGet(name)
    \/ \E cls \in {"DefaultSchema", "ElasticcSchema", "LsstSchema"},
          version \in {<<>>, <<"v", "7", "_", "3">>},
          definition \in {<<>>, SomeDefinition} : NewSchema(cls, version, definition)
    \/ \E x \in {v \in Values : v.t = "dict"}, ferr \in FastavroErrors : Serialize(x, ferr)
    \/ \E ferr \in FastavroErrors : Deserialize(ferr)
    \/ \E v \in Values : CleanForJsonCall(v)

SpecLib == LibInit /\ [][NextLib]_vars

\* ---------------------------------------------------------------- Alert
\* how often one behaviour lets the payload be deserialized
MaxDecodes == 2

\* the one element of a set of one element; {F(v) : v \in {e}} has e evaluated
\* once, whatever F does with v
TheOne(S) == CHOOSE y \in S : TRUE

\* the outcome of a property or method of the Alert a: the exception raised
\* ("none": it returned val), the Alert after it, and the number n of
\* deserializations so far
Out(exc, val, a, n) == [exc |-> exc, val |-> val, a |-> a, n |-> n]

\* `Cast.json_to_dict`: the class Cast (utils.py lines 37-176) has no attribute
\* of this name, so evaluating it raises AttributeError
Cast_json_to_dict(data) == Raised("AttributeError")

\* Alert.schema, lines 276-294; schema = NoSchema with exc = "none" is the None
\* that Schemas.get returned
SchemaProp(a) ==
    IF a._schema # NoSchema THEN [exc |-> "none", schema |-> a._schema, a |-> a]
    ELSE IF a.schema_name = <<>>
      THEN [exc |-> "SchemaNotFoundError", schema |-> NoSchema, a |-> a]
    ELSE LET g == GetOutcome(a.schema_name)
         IN  [exc |-> g.exc, schema |-> g.schema, a |-> [a EXCEPT !._schema = g.schema]]

\* self.schema.map (schema.py lines 306-315), m being what the survey's map
\* file holds: the map is loaded on the first access
MapProp(a, m) ==
    TheOne({
      IF s.exc # "none" THEN [exc |-> s.exc, map |-> NoMap, a |-> s.a]
      ELSE IF s.schema = NoSchema
        THEN \* None has no attribute map
             [exc |-> "AttributeError", map |-> NoMap, a |-> s.a]
      ELSE IF s.a._map = NoMap THEN [exc |-> "none", map |-> m, a |-> [s.a EXCEPT !._map = m]]
      ELSE [exc |-> "none", map |-> s.a._map, a |-> s.a] :
      s \in {SchemaProp(a)}})

\* Alert.dict after the schema was looked up, lines 212-238: s1 is the outcome
\* of `self.schema` in the try (SchemaNotFoundError is caught), s2 that of the
\* `self.schema` of `self.schema.survey`; for elasticc `self.schema.avsc` reads
\* an attribute no Schema of schema.py has; then Cast.avro_to_dict and
\* Cast.json_to_dict are tried on msg.data, and BytesIO(a str) raises TypeError
DictDecode(s1, s2, n) ==
    LET a1 == IF s1.exc = "none" THEN s2.a ELSE s1.a
        first == IF a1.msg = NoMsg THEN Raised("AttributeError")
                 ELSE IF a1.msg.data.t # "bytes" THEN Raised("TypeError")
                 ELSE AvroToDict(a1.msg.data.b)
        second == IF a1.msg = NoMsg THEN Raised("AttributeError")
                  ELSE Cast_json_to_dict(a1.msg.data)
    IN  IF s1.exc \notin {"none", "SchemaNotFoundError"} THEN Out(s1.exc, NoValue, s1.a, n)
        ELSE IF s1.exc = "none" /\ s2.schema = NoSchema
          THEN Out("AttributeError", NoValue, a1, n)
        ELSE IF s1.exc = "none" /\ s2.schema.name = <<"elasticc">>
          THEN Out("AttributeError", NoValue, a1, n)
        ELSE IF first.exc = "none"
          THEN Out("none", first.val, [a1 EXCEPT !._dict = first.val], n + 1)
        ELSE IF second.exc = "none"
          THEN Out("none", second.val, [a1 EXCEPT !._dict = second.val], n + 1)
        ELSE Out("OpenAlertError", NoValue, a1, n)

\* Alert.dict that deserializes msg.data again at every access
DictPropNoCache(a, n) ==
    IF a._dict # NoValue /\ a.msg = NoMsg THEN Out("none", a._dict, a, n)
    ELSE TheOne({TheOne({DictDecode(s1, s2, n) : s2 \in {SchemaProp(s1.a)}}) :
                    s1 \in {SchemaProp(a)}})

\* Alert.dict, lines 191-238: the cached dict, or else the decoding
DictProp(a, n) ==
    IF a._dict # NoValue THEN Out("none", a._dict, a, n)
    ELSE TheOne({TheOne({DictDecode(s1, s2, n) : s2 \in {SchemaProp(s1.a)}}) :
                    s1 \in {SchemaProp(a)}})

\* the position of a key among the keys of records
KeyIndex(key) == CHOOSE i \in 1..Len(KeyText) : KeyText[i] = key

RECURSIVE Walk(_, _)
\* val[path[1]][path[2]]... for str keys: val[key] raises KeyError when a dict
\* lacks the key, TypeError when val is no dict (None, a number, a list, a str)
Walk(val, path) ==
    IF Len(path) = 0 THEN Returned(<<>>, val)
    ELSE IF val.t # "dict" THEN Raised("TypeError")
    ELSE IF KeyIndex(path[1]) > Len(val.items) THEN Raised("KeyError")
    ELSE Walk(val.items[KeyIndex(path[1])], Tail(path))

\* Alert.get(field, default), lines 333-363, m being what the map file holds:
\* mp is the outcome of self.schema.map, d that of self.dict, w that of the
\* subscripts
GetOf(a, n, m, field, default) ==
    TheOne({
      IF mp.exc # "none" THEN Out(mp.exc, NoValue, mp.a, n)
      ELSE IF mp.map[field].t = "None" THEN Out("none", default, mp.a, n)
      ELSE IF mp.map[field].t = "list" /\ Len(mp.map[field].path) \notin {2, 3}
        THEN Out("NotImplementedError", NoValue, mp.a, n)
      ELSE TheOne({
             IF d.exc # "none" THEN d
             ELSE TheOne({
                    IF w.exc = "KeyError" THEN Out("none", default, d.a, d.n)
                    ELSE IF w.exc # "none" THEN Out(w.exc, NoValue, d.a, d.n)
                    ELSE Out("none", w.val, d.a, d.n) :
                    w \in {Walk(d.val, mp.map[field].path)}}) :
             d \in {DictProp(mp.a, n)}}) :
      mp \in {MapProp(a, m)}})

\* Alert.alertid, line 258: self.get("alertid", self.sourceid)
AlertIdOf(a, n, m) ==
    TheOne({IF s.exc # "none" THEN s ELSE GetOf(s.a, s.n, m, "alertid", s.val) :
               s \in {GetOf(a, n, m, "sourceid", NoneVal)}})

\* Alert.attributes that hands out the message's own dict
AttributesPropAlias(a, h) ==
    IF a._attributes # 0 THEN [exc |-> "none", ref |-> a._attributes, a |-> a, h |-> h]
    ELSE IF a.msg = NoMsg THEN [exc |-> "AttributeError", ref |-> 0, a |-> a, h |-> h]
    ELSE IF a.msg.attributes = 0 THEN [exc |-> "TypeError", ref |-> 0, a |-> a, h |-> h]
    ELSE [exc |-> "none", ref |-> a.msg.attributes,
          a |-> [a EXCEPT !._attributes = a.msg.attributes], h |-> h]

\* Alert.attributes, lines 177-189, on the heap h: the reference of the Alert's
\* own dict, made by dict(self.msg.attributes) at the first access
AttributesProp(a, h) ==
    IF a._attributes # 0 THEN [exc |-> "none", ref |-> a._attributes, a |-> a, h |-> h]
    ELSE IF a.msg = NoMsg THEN [exc |-> "AttributeError", ref |-> 0, a |-> a, h |-> h]
    ELSE IF a.msg.attributes = 0 THEN [exc |-> "TypeError", ref |-> 0, a |-> a, h |-> h]
    ELSE [exc |-> "none", ref |-> Len(h) + 1,
          a |-> [a EXCEPT !._attributes = Len(h) + 1],
          h |-> Append(h, h[a.msg.attributes])]

\* the name add_id_attributes makes of a map entry, line 306
IdName(entry) ==
    IF entry.t = "list" THEN JoinStr([i \in 1..Len(entry.path) |-> <<entry.path[i]>>], ".")
    ELSE entry.path

RECURSIVE SetIds(_, _, _, _)
\* the loop of add_id_attributes, lines 309-311, over the entries and values
\* of the identifiers: self.attributes[idname] = idvalue where the survey
\* defines the field
SetIds(a, h, entries, values) ==
    IF Len(entries) = 0 THEN [exc |-> "none", ref |-> 0, a |-> a, h |-> h]
    ELSE IF entries[1].t = "None" THEN SetIds(a, h, Tail(entries), Tail(values))
    ELSE TheOne({
           IF p.exc # "none" THEN p
           ELSE SetIds(p.a, [p.h EXCEPT ![p.ref][IdName(entries[1])] = values[1]],
                       Tail(entries), Tail(values)) :
           p \in {AttributesProp(a, h)}})

\* datetime.strptime(text, format): the datetime (date, time, microseconds,
\* offset), or <<>> where it raises ValueError
Strptime(text, format) ==
    LET matches(directive, part) ==
            IF directive = "%Y-%m-%d" THEN part = "2023-01-01"
            ELSE IF directive = "%H:%M:%S" THEN part = "00:00:00"
            ELSE IF directive = "%f" THEN part = "000000"
            ELSE IF directive = "%z" THEN part = "+00:00"
            ELSE part = directive
    IN  IF Len(text) = Len(format) /\ \A i \in 1..Len(text) : matches(format[i], text[i])
          THEN <<text[1], text[3], "000000", text[Len(text)]>>
          ELSE <<>>

\* the envelope test of from_cloud_run without its `"message" not in envelope`
InvalidEnvelopeNoKeyTest(env) == ~env.truthy \/ env.t # "dict"

\* the envelopes from_cloud_run raises BadRequest for, lines 125-128:
\* `not envelope`, `not isinstance(envelope, dict)`, `"message" not in envelope`
InvalidEnvelope(env) == ~env.truthy \/ env.t # "dict" \/ env.message = NoMessage

\* Alert.from_cloud_run(envelope, schema_name), lines 125-148
FromCloudRun(env, name) ==
    /\ apc = "idle"
    /\ apc' = "from_cloud_run"
    /\ args' = <<>>
    /\ envelope' = env
    /\ LET message == env.message
           \* .replace("Z", "+00:00")
           publish_time == [i \in 1..Len(message.publish_time) |->
                               IF message.publish_time[i] = "Z" THEN "+00:00"
                               ELSE message.publish_time[i]]
           t1 == Strptime(publish_time, <<"%Y-%m-%d", "T", "%H:%M:%S", ".", "%f", "%z">>)
           t2 == Strptime(publish_time, <<"%Y-%m-%d", "T", "%H:%M:%S", "%z">>)
           opt(key, v, none) == IF key \in message.keys THEN v ELSE none
       IN  IF InvalidEnvelope(env)
             THEN /\ aexc' = "BadRequest"
                  /\ alert' = NoAlert
                  /\ heap' = <<>>
           ELSE IF "publish_time" \notin message.keys
             THEN /\ aexc' = "KeyError"
                  /\ alert' = NoAlert
                  /\ heap' = <<>>
           ELSE IF t1 = <<>> /\ t2 = <<>>
             THEN /\ aexc' = "ValueError"
                  /\ alert' = NoAlert
                  /\ heap' = <<>>
           ELSE IF "data" \notin message.keys
             THEN /\ aexc' = "KeyError"
                  /\ alert' = NoAlert
                  /\ heap' = <<>>
           ELSE /\ aexc' = "none"
                /\ heap' = opt("attributes", <<message.attributes>>, <<>>)
                /\ alert' = AlertObject(
                       PubsubMessageLike([t |-> "str", b |-> message.data],
                                         opt("attributes", 1, 0),
                                         opt("message_id", "12345", "None"),
                                         IF t1 # <<>> THEN t1 ELSE t2,
                                         opt("ordering_key", "order_key", "None")),
                       0, NoValue, name, NoSchema)
    /\ attributes0' = IF "attributes" \in env.message.keys THEN env.message.attributes
                      ELSE NoAttributes
    /\ UNCHANGED <<consumervars, libvars, decodes, ret>>

\* Alert.from_dict(payload, attributes, schema_name), lines 150-158; given is
\* whether attributes were passed
FromDict(payload, given, attributes, name) ==
    /\ apc = "idle"
    /\ apc' = "from_dict"
    /\ args' = <<>>
    /\ alert' = AlertObject(NoMsg, IF given THEN 1 ELSE 0, payload, name, NoSchema)
    /\ heap' = IF given THEN <<attributes>> ELSE <<>>
    /\ aexc' = "none"
    /\ UNCHANGED <<consumervars, libvars, envelope, attributes0, decodes, ret>>

\* Alert.from_msg(msg, schema_name), lines 160-165 (and from_path, lines
\* 167-174, whose message has the bytes of the file)
FromMsg(data, attributes, name) ==
    /\ apc = "idle"
    /\ apc' = "from_msg"
    /\ args' = <<>>
    /\ alert' = AlertObject(PubsubMessageLike([t |-> "bytes", b |-> data], 1, "12345", <<>>, "None"),
                            0, NoValue, name, NoSchema)
    /\ heap' = <<attributes>>
    /\ attributes0' = attributes
    /\ aexc' = "none"
    /\ UNCHANGED <<consumervars, libvars, envelope, decodes, ret>>

\* an access to alert.dict
DictAccess ==
    /\ alert.made
    /\ decodes < MaxDecodes
    /\ apc' = "dict"
    /\ args' = <<>>
    /\ \E o \in {DictProp(alert, decodes)} :
          /\ aexc' = o.exc
          /\ ret' = o.val
          /\ alert' = o.a
          /\ decodes' = o.n
    /\ UNCHANGED <<consumervars, libvars, heap, envelope, attributes0>>

\* a call of alert.get(field, default)
Get(field, default, m) ==
    /\ alert.made
    /\ decodes < MaxDecodes
    /\ apc' = "get"
    /\ args' = <<field, default>>
    /\ \E o \in {GetOf(alert, decodes, m, field, default)} :
          /\ aexc' = o.exc
          /\ ret' = o.val
          /\ alert' = o.a
          /\ decodes' = o.n
    /\ UNCHANGED <<consumervars, libvars, heap, envelope, attributes0>>

\* an access to alert.alertid, alert.objectid (line 266) or alert.sourceid
\* (line 274)
IdProperty(id, m) ==
    /\ alert.made
    /\ decodes < MaxDecodes
    /\ apc' = id
    /\ args' = <<>>
    /\ \E o \in {IF id = "alertid" THEN AlertIdOf(alert, decodes, m)
                  ELSE GetOf(alert, decodes, m, id, NoneVal)} :
          /\ aexc' = o.exc
          /\ ret' = o.val
          /\ alert' = o.a
          /\ decodes' = o.n
    /\ UNCHANGED <<consumervars, libvars, heap, envelope, attributes0>>

\* alert.add_id_attributes(), lines 297-311: the three values by get, the
\* three names by get_key (lines 388-396: the entry of the map, which the
\* gets have loaded), then the loop
AddIdAttributes(m) ==
    /\ alert.made
    /\ decodes < MaxDecodes
    /\ apc' = "add_id_attributes"
    /\ args' = <<>>
    /\ ret' = NoValue
    /\ \E g1 \in {GetOf(alert, decodes, m, "alertid", NoneVal)} :
       \E g2 \in {GetOf(g1.a, g1.n, m, "objectid", NoneVal)} :
       \E g3 \in {GetOf(g2.a, g2.n, m, "sourceid", NoneVal)} :
       \E bad \in {IF g1.exc # "none" THEN g1 ELSE IF g2.exc # "none" THEN g2 ELSE g3} :
          IF bad.exc # "none"
            THEN /\ aexc' = bad.exc
                 /\ alert' = bad.a
                 /\ decodes' = bad.n
                 /\ heap' = heap
            ELSE \E set \in {SetIds(g3.a, heap,
                                    <<g3.a._map["alertid"], g3.a._map["objectid"],
                                      g3.a._map["sourceid"]>>,
                                    <<g1.val, g2.val, g3.val>>)} :
                 /\ aexc' = set.exc
                 /\ alert' = set.a
                 /\ decodes' = g3.n
                 /\ heap' = set.h
    /\ UNCHANGED <<consumervars, libvars, envelope, attributes0>>

\* alert.attributes[key] = v, by the user
SetAttribute(key, v) ==
    /\ alert.made
    /\ apc' = "set_attribute"
    /\ args' = <<>>
    /\ ret' = NoValue
    /\ \E p \in {AttributesProp(alert, heap)} :
          /\ aexc' = p.exc
          /\ alert' = p.a
          /\ heap' = IF p.exc = "none" THEN [p.h EXCEPT ![p.ref][key] = v] ELSE heap
    /\ UNCHANGED <<consumervars, libvars, envelope, attributes0, decodes>>

\* the contents schemas/maps/<survey>.yml can have: the alert and source
\* identifiers have entries of every kind, the other two fields a single name
\* or none
SurveyMaps ==
    {m \in [Fields -> MapEntries] : m["a"].t \in {"None", "str"} /\ m["objectid"].t \in {"None", "str"}}

\* what the map file of the Alert's survey can hold: any map of S before the
\* map is loaded, and nothing else than was loaded after that
MapFiles(S) == IF alert._map = NoMap THEN S ELSE {alert._map}

\* one Alert: made by one of its constructors with a name that is None, a
\* name of the manifest or a name for which Schemas.get returns None, then
\* read and given attributes, under maps with the alert and source
\* identifiers only
NextAlert ==
    \/ \E env \in Envelopes, name \in {<<>>, <<"default">>} : FromCloudRun(env, name)
    \/ \E payload \in Payloads, given \in BOOLEAN,
          name \in {<<>>, <<"default">>, <<"elasticc">>, <<"lsst">>, <<"Ztf">>} :
          FromDict(payload, given, [NoAttributes EXCEPT ![<<"k">>] = StrVal(1)], name)
    \/ \E data \in MessageData,
          a \in {NoAttributes, [NoAttributes EXCEPT ![<<"k">>] = StrVal(1)]},
          name \in {<<>>, <<"default">>, <<"elasticc">>, <<"lsst">>, <<"Ztf">>} :
          FromMsg(data, a, name)
    \/ DictAccess
    \/ \E m \in MapFiles({f \in SurveyMaps :
                             /\ f["a"] = NoEntry /\ f["objectid"] = NoEntry
                             /\ f["alertid"].t \in {"None", "str"}
                             /\ f["sourceid"] \in {NoEntry, MapEntry("list", <<"a", "a">>)}}) :
          AddIdAttributes(m)
    \/ \E v \in {StrVal(2)} : SetAttribute(<<"k">>, v)

SpecAlert == LibInit /\ [][NextAlert]_vars

\* one Alert made from a dict, and the lookups in it through the schema map
NextAlertGet ==
    \/ \E payload \in Payloads, given \in BOOLEAN, name \in {<<"default">>} :
          FromDict(payload, given, [NoAttributes EXCEPT ![<<"k">>] = StrVal(1)], name)
    \/ \E field \in Fields, default \in {NoneVal, StrVal(1)}, m \in MapFiles(SurveyMaps) :
          Get(field, default, m)
    \/ \E id \in {"alertid", "objectid", "sourceid"}, m \in MapFiles(SurveyMaps) :
          IdProperty(id, m)
    \/ \E m \in MapFiles(SurveyMaps) : AddIdAttributes(m)

SpecAlertGet == LibInit /\ [][NextAlertGet]_vars

\* ---------------------------------------------------------------- _unpack_msg
\* whether the class types.Alert has an attribute of this name: it is an attrs
\* class with the four fields of its body and no namedtuple, so it has neither
\* _make nor _fields
types_Alert_has(name) == name \in {"dict", "bytes", "metadata", "msg"}

\* Consumer._unpack_msg(message) with self.unpack = unpack, for a message with
\* this data and these attributes: Alert._make(... for k in Alert._fields),
\* where each field in unpack is taken from the message (the dict by
\* Cast.avro_to_dict) and each other field is None; ret is the Alert, its
\* fields in the order dict, bytes, metadata, msg
UnpackMsg(unpack, data, attributes) ==
    /\ apc = "idle"
    /\ apc' = "_unpack_msg"
    /\ args' = <<unpack, PubsubMessageLike([t |-> "bytes", b |-> data], 1, "12345", <<>>, "None")>>
    /\ heap' = <<attributes>>
    /\ IF ~types_Alert_has("_make") \/ ~types_Alert_has("_fields")
         THEN /\ aexc' = "AttributeError"
              /\ ret' = NoValue
              /\ decodes' = decodes
         ELSE \E o \in {IF "dict" \in unpack THEN AvroToDict(data)
                        ELSE Returned(<<>>, NoneVal)} :
              /\ aexc' = o.exc
              /\ decodes' = IF "dict" \in unpack THEN decodes + 1 ELSE decodes
              /\ ret' = IF o.exc # "none" THEN NoValue
                        ELSE Val("Alert", 0,
                                 <<o.val,
                                   IF "bytes" \in unpack THEN Val("bytes", 0, <<>>) ELSE NoneVal,
                                   IF "metadata" \in unpack THEN DictVal(<<>>) ELSE NoneVal,
                                   IF "msg" \in unpack THEN Val("object", 0, <<>>) ELSE NoneVal>>)
    /\ UNCHANGED <<consumervars, libvars, alert, envelope, attributes0>>

\* one message unpacked, for every unpack the validator of Consumer.unpack lets
\* through
NextUnpack ==
    \E unpack \in SUBSET {"dict", "bytes", "metadata", "msg"}, data \in MessageData,
       a \in {NoAttributes, [NoAttributes EXCEPT ![<<"k">>] = StrVal(1)]} :
       UnpackMsg(unpack, data, a)

SpecUnpack == LibInit /\ [][NextUnpack]_vars

\* ---------------------------------------------------------------- claims
\* the worker that runs callback() for d has left it, by return or by exception
Left(d) == wpc[d] \in {"done", "escaped"}

\* handle_response has classified the Response of d
Classified(d) ==
    /\ wpc[d] \in {"communicate", "join", "ack_or_nack", "done"}
    /\ response[d].result \in {"False", "None", "value"}

\* how many times message d was appended to results
TimesStored(d) == Cardinality({i \in 1..Len(results) : results[i] = d})

\* the counts waiting on the queue that message d put there
QueuedBy(d) == {i \in 1..Len(_queue) : _queue[i].msg = d}

\* C1: on every path through callback() exactly one of message.ack() and
\* message.nack() is called, exactly once: never both, never twice, and never
\* neither once callback() is left.
C1_ExactlyOneAckOrNack ==
    \A d \in Msgs :
        /\ acks[d] + nacks[d] <= 1
        /\ Left(d) => acks[d] + nacks[d] = 1

\* C2: when the user callback raises for a message in blocking mode, the message
\* is nacked and never acked, no exception leaves callback(), and taking that
\* message's count off the queue does not throw the foreground thread out of
\* the Draining loop.
C2_CallbackErrorNackedAndDraining ==
    \A d \in Msgs :
        (_block /\ cb_raised[d]) =>
            /\ wpc[d] # "escaped"
            /\ acks[d] = 0
            /\ wpc[d] = "done" => nacks[d] = 1
            /\ ~(item = d /\ escaped # "none")

\* C3: when unpacking a message raises, callback() nacks it and returns: the
\* user callback is not invoked for it, nothing is appended to results, and
\* no count for it reaches the synchronization queue.
C3_UnpackErrorNackedOnly ==
    \A d \in Msgs :
        unpack_error[d] =>
            /\ wpc[d] = "done"
            /\ nacks[d] = 1
            /\ acks[d] = 0
            /\ cb_calls[d] = 0
            /\ TimesStored(d) = 0
            /\ QueuedBy(d) = {}
            /\ item # d
            /\ count[d] = Unbound

\* a message whose unpacking raised has been nacked while another message went
\* through the user callback
C3_Witness ==
    \E d, e \in Msgs :
        /\ unpack_error[d]
        /\ nacks[d] = 1
        /\ cb_calls[e] = 1
        /\ wpc[e] = "done"

\* C4: handle_response counts 0 and stores nothing for the result False, counts
\* 1 and stores nothing for None, and counts 1 and stores the result exactly
\* once for any other result; the count it puts on the queue is that count.
C4_ResponseClassification ==
    \A d \in Msgs :
        Classified(d) =>
            /\ response[d].result = "False" => count[d] = 0 /\ TimesStored(d) = 0
            /\ response[d].result = "None" => count[d] = 1 /\ TimesStored(d) = 0
            /\ response[d].result = "value" => count[d] = 1 /\ TimesStored(d) = 1
            /\ \A i \in QueuedBy(d) : _queue[i].count = count[d]

\* one message was filtered out (False), another one was stored
C4_Witness ==
    \E d, e \in Msgs :
        /\ wpc[d] = "done" /\ response[d].result = "False" /\ count[d] = 0
        /\ wpc[e] = "done" /\ response[e].result = "value" /\ results = <<e>>

\* C5: in blocking mode with max_results = N, the Draining loop is left as soon
\* as the running total is >= N: the foreground thread never waits on the queue
\* again with a total that has reached N.
C5_StopsAtMaxResults ==
    (_block /\ max_results # None /\ fpc = "get") => total_count < max_results

\* C6: in blocking mode with a timeout, once a wait on the queue has ended
\* with queue.Empty the foreground thread is out of the Draining loop, calls
\* stop() (cancel, then wait for the shutdown) and stream() returns without
\* raising.
C6_TimeoutStops ==
    timed_out =>
        /\ timeout # None
        /\ fpc \in {"stop", "stop_result", "returned"}
        /\ escaped = "none" /\ raised = "none"
        /\ fpc = "stop" => stops = 0 /\ streaming_pull_future = "open"
        /\ fpc = "stop_result" => stops = 1 /\ streaming_pull_future = "cancelled"
        /\ fpc = "returned" => stops = 1 /\ streaming_pull_future = "shutdown"

\* the idle timeout ended a stream() that had counted a message, and stream()
\* has returned
C6_Witness ==
    /\ timed_out
    /\ fpc = "returned"
    /\ total_count > 0
    /\ streaming_pull_future = "shutdown"

\* C7: whenever max_results is not None, the max_messages that stream() gives
\* the transport is <= max_results.
C7_BacklogLeResults ==
    (streaming_pull_future # "none" /\ max_results # None) =>
        max_messages <= max_results

\* a stream is open whose constructor was given max_backlog > max_results
C7_Witness ==
    /\ streaming_pull_future = "open"
    /\ max_results # None
    /\ backlog_arg > max_results
    /\ max_messages = max_results

\* C8: an exception that leaves the Draining loop is followed by stop() before
\* anything else, and stream() raises that same exception only after stop()
\* has returned.
C8_StopBeforeReraise ==
    /\ escaped # "none" => fpc \in {"except", "except_result", "raised"}
    /\ fpc = "except" => escaped # "none" /\ stops = 0 /\ raised = "none"
    /\ fpc = "except_result" =>
          stops = 1 /\ streaming_pull_future = "cancelled" /\ raised = "none"
    /\ fpc = "raised" =>
          stops = 1 /\ streaming_pull_future = "shutdown" /\ raised = escaped
    /\ raised # "none" => fpc = "raised"

\* a KeyboardInterrupt left the loop and was re-raised after stop()
C8_Witness ==
    /\ fpc = "raised"
    /\ raised = "KeyboardInterrupt"
    /\ stops = 1

\* C9: stop() cancels first and waits second, and once stop() has returned no
\* worker thread is still inside callback().
C9_StopQuiesces ==
    /\ streaming_pull_future = "cancelled" =>
          fpc \in {"stop_result", "except_result", "user_stop_result"}
    /\ (stops > 0 /\ fpc \in {"returned", "raised", "stopped"}) =>
          \A d \in Msgs : wpc[d] \in {"undelivered", "done", "escaped"}

\* C10: stream(block=False) returns with the stream open and never drains: the
\* synchronization queue is not used, no stopping condition is evaluated, and
\* the stream stays open until the caller's stop().
C10_NonBlockingStream ==
    (~_block /\ streaming_pull_future # "none") =>
        /\ fpc \in {"background", "user_stop_result", "stopped"}
        /\ _queue = <<>> /\ unfinished = 0
        /\ total_count = 0 /\ ~timed_out /\ escaped = "none"
        /\ fpc = "background" => stops = 0 /\ streaming_pull_future = "open"
        /\ streaming_pull_future # "open" => stops = 1

\* every message was handled in the background and the stream is still open
C10_Witness ==
    /\ fpc = "background"
    /\ streaming_pull_future = "open"
    /\ \A d \in Msgs : wpc[d] = "done"
    /\ \E d \in Msgs : acks[d] = 1

\* C11: a Consumer has at most one active streaming pull at any time: a
\* stream() call made while an earlier stream() call's pull is still active is
\* rejected and opens no second pull.
C11_OneActivePull == active_pulls <= 1

\* C12: with max_results = None a blocking stream() enforces no count limit: it
\* leaves the Draining loop only by the idle timeout (or the user's Ctrl-C),
\* never by an exception of its own, however many messages were counted.
C12_NoLimitDrainsUntilTimeout ==
    (_block /\ max_results = None /\ streaming_pull_future # "none"
        /\ fpc \notin {"get", "task_done"} /\ escaped # "KeyboardInterrupt") =>
        /\ timed_out
        /\ escaped = "none"
        /\ raised = "none"

\* C13: when the consumer proceeds without a user callback, every message that
\* unpacks gets Response(ack=True, result=None): it counts 1, is never nacked,
\* is acked once callback() is left, and nothing is appended to results.
C13_NoCallbackAutoAck ==
    (~user_callback /\ streaming_pull_future # "none") =>
        /\ _proceed
        /\ results = <<>>
        /\ \A d \in Msgs :
              (wpc[d] # "undelivered" /\ ~unpack_error[d]) =>
                  /\ response[d] = Response(TRUE, "None")
                  /\ count[d] = 1
                  /\ nacks[d] = 0
                  /\ cb_calls[d] = 0
                  /\ \A i \in QueuedBy(d) : _queue[i].count = 1
                  /\ Left(d) => wpc[d] = "done" /\ acks[d] = 1

\* without a user callback two messages were acked and both were counted
C13_Witness ==
    /\ ~user_callback
    /\ _block
    /\ total_count = 2
    /\ results = <<>>
    /\ \A d \in Msgs : wpc[d] = "done" /\ acks[d] = 1

\* the ids that encode a supported (major, minor) pair as major * 100 + minor
SupportedIds == {(7 * 100) + minor : minor \in 0..4}

\* C14: loading a wire-framed (LSST) schema from a 5-byte header: when the
\* header's int32 id encodes a supported (major, minor) pair the schema's
\* version is "v<major>_<minor>" and the matching definition is loaded; for
\* every other id SchemaError is raised, no other error, and no schema with a
\* definition comes back.
C14_LsstVersionFromHeader ==
    lpc = "from_yaml" =>
        \A id \in VersionIds :
            SubSeq(alert_bytes, 2, 5) = PackInt(id) =>
                IF id \in SupportedIds
                  THEN /\ lexc = "none"
                       /\ schema.version =
                             <<"v", Digits[(id \div 100) + 1], "_", Digits[(id % 100) + 1]>>
                       /\ schema.definition =
                             <<"lsst", Digits[(id \div 100) + 1], Digits[(id % 100) + 1]>>
                  ELSE /\ lexc = "SchemaError"
                       /\ schema = NoSchema

\* C15: for an LSST schema loaded from a header with a supported id,
\* serialize() returns bytes whose byte 0 is 0x00 and whose bytes 1-4 are the
\* big-endian int32 of the id the header carried, and deserialize() of those
\* bytes decodes the bytes after the 5-byte header to the record serialized.
C15_LsstHeaderRoundTrip ==
    (schema.cls = "LsstSchema" /\ schema.name = <<"lsst">>) =>
        /\ lpc = "from_yaml" => SubSeq(alert_bytes, 2, 5) = PackInt(schema.version_id)
        /\ schema.version_id \in SupportedIds
        /\ lpc = "serialize" =>
              /\ lexc = "none"
              /\ Len(out_bytes) > 5
              /\ out_bytes[1] = 0
              /\ SubSeq(out_bytes, 2, 5) = PackInt(schema.version_id)
              /\ UnpackInt(SubSeq(out_bytes, 2, 5)) = schema.version_id
        /\ (lpc = "deserialize" /\ alert_bytes # <<>>) =>
              /\ lexc = "none"
              /\ alert_bytes = out_bytes
              /\ out_dict = alert_dict

\* a record with a two-byte long went through a v7_3 schema and came back
C15_Witness ==
    /\ lpc = "deserialize"
    /\ schema.version = <<"v", "7", "_", "3">>
    /\ Len(alert_bytes) > 5 + MaxItems
    /\ SubSeq(alert_bytes, 1, 5) = <<0, 0, 0, 2, 191>>
    /\ out_dict = alert_dict
    /\ \E i \in 1..Len(out_dict.items) : out_dict.items[i] = IntVal(64)

\* the manifest entry a name resolves to, 0 when there is none: an entry of
\* that exact name first, then the first entry with the same first and last
\* segments as a name that carries a version in between; None is the default
MatchOf(name) ==
    LET n == IF name = <<>> THEN <<"default">> ELSE name
        exact == {k \in 1..Len(SCHEMA_MANIFEST) : SCHEMA_MANIFEST[k] = n}
        relaxed == {k \in 1..Len(SCHEMA_MANIFEST) :
                      /\ Len(n) > 2
                      /\ n[1] # ""
                      /\ SCHEMA_MANIFEST[k][1] = n[1]
                      /\ SCHEMA_MANIFEST[k][Len(SCHEMA_MANIFEST[k])] = n[Len(n)]}
    IN  IF exact # {} THEN CHOOSE k \in exact : TRUE
        ELSE IF relaxed # {} THEN CHOOSE k \in relaxed : \A j \in relaxed : k <= j
        ELSE 0

\* C16: Schemas.get(name) raises a schema-not-found error for every name that
\* matches no manifest entry, exactly or by the relaxed match; it never
\* returns None or a schema for such a name.
C16_GetUnknownNameRaises ==
    (lpc = "get" /\ MatchOf(schema_name) = 0) =>
        /\ lexc \in {"SchemaError", "SchemaNotFoundError"}
        /\ got = "raised"
        /\ schema = NoSchema

\* C17: Schemas.get(name) returns the Schema of the manifest entry the name
\* matches, for every name listed in the manifest and for every versioned
\* name with the first and last segments of an entry, the exact match first.
C17_GetKnownNameReturnsSchema ==
    (lpc = "get" /\ MatchOf(schema_name) # 0) =>
        /\ lexc = "none"
        /\ got = "Schema"
        /\ schema.name = SCHEMA_MANIFEST[MatchOf(schema_name)]

\* C18: for a schema whose format is schemaless Avro (wire-framed included)
\* and whose definition is absent, serialize() and deserialize() both raise
\* SchemaError and nothing else.
C18_NoDefinitionRaisesSchemaError ==
    (lpc \in {"serialize", "deserialize"}
        /\ schema.cls \in {"ElasticcSchema", "LsstSchema"}
        /\ schema.definition = <<>>) =>
        lexc = "SchemaError"

RECURSIVE Recognized(_)
\* a value built from str, int, float, None, bytes, lists and dicts only
Recognized(val) ==
    IF val.t \in {"list", "dict"}
      THEN \A i \in 1..Len(val.items) : Recognized(val.items[i])
      ELSE val.t \in {"str", "int", "float", "nan", "None", "bytes"}

RECURSIVE Normalized(_)
\* the JSON-safe form of a value: NaN is None, bytes are their base64 string
\* (StrText[2] for b"s3"), all else is as it was
Normalized(val) ==
    IF val.t = "nan" THEN NoneVal
    ELSE IF val.t = "bytes" THEN StrVal(2)
    ELSE IF val.t \in {"list", "dict"}
      THEN Val(val.t, 0, [i \in 1..Len(val.items) |-> Normalized(val.items[i])])
    ELSE val

\* C19: _clean_for_json returns, for a value built from str, int, float, None,
\* bytes, lists and dicts, the same structure with every NaN replaced by None
\* and every bytes by its base64 string, and raises TypeError for a value
\* with anything else in it.
C19_CleanForJson ==
    lpc = "clean" =>
        IF Recognized(value)
          THEN lexc = "none" /\ cleaned = Normalized(value)
          ELSE lexc = "TypeError"

\* a record x that the schema's codec is to take: the schema has what its
\* format needs, and x fits the format
ValidFor(sch, x) ==
    IF sch.cls \in JsonClasses THEN Recognized(x)
    ELSE /\ sch.definition # <<>>
         /\ sch.cls = "LsstSchema" => sch.version # <<>>
         /\ MatchesDefinition(x)

\* C20: for every codec (plain JSON, schemaless Avro, wire-framed Avro) and
\* every record x valid for the schema, serialize(x) returns and
\* deserialize(serialize(x)) is x: for JSON, x after JSON-safe normalization.
C20_RoundTrip ==
    (alert_dict # NoValue /\ ValidFor(schema, alert_dict)) =>
        /\ lexc = "none"
        /\ lpc = "deserialize" =>
              out_dict = IF schema.cls \in JsonClasses THEN Normalized(alert_dict)
                         ELSE alert_dict

\* C21: across the accesses to Alert.dict on one Alert the payload is
\* deserialized into a mapping at most once: once the mapping is cached, an
\* access returns it and deserializes nothing, and an Alert made from a dict
\* never deserializes.
C21_DecodedAtMostOnce ==
    [][/\ decodes' <= 1
       /\ alert'.msg = NoMsg => decodes' = 0
       /\ (alert._dict # NoValue /\ apc' = "dict") =>
             /\ aexc' = "none"
             /\ ret' = alert._dict
             /\ decodes' = decodes]_vars

\* an Avro file came in a message, a lookup through the schema map read
\* alert.dict and deserialized it, and alert.dict was read again
C21_Witness ==
    /\ apc = "dict"
    /\ alert.msg # NoMsg
    /\ alert._map # NoMap
    /\ alert._map["alertid"].t = "str"
    /\ decodes = 1
    /\ aexc = "none"
    /\ ret = alert._dict

\* C28: from_cloud_run raises BadRequest, and nothing else, for every envelope
\* that is absent or empty, is no mapping or has no "message" key, and makes
\* no Alert.
C28_BadEnvelopeIsBadRequest ==
    (/\ apc = "from_cloud_run"
     /\ \/ ~envelope.truthy
        \/ envelope.t # "dict"
        \/ envelope.message = NoMessage) =>
        /\ aexc = "BadRequest"
        /\ ~alert.made

\* from_cloud_run was given a non-empty mapping without "message" and has
\* raised BadRequest
C28_Witness ==
    /\ apc = "from_cloud_run"
    /\ envelope.truthy
    /\ envelope.t = "dict"
    /\ envelope.message = NoMessage
    /\ aexc = "BadRequest"
    /\ ~alert.made

\* C25: changing Alert.attributes, directly or through add_id_attributes,
\* never changes the attributes of the message Alert.msg: msg.attributes is
\* what it was when the Alert was made.
C25_MsgAttributesUnchanged ==
    (alert.made /\ alert.msg # NoMsg /\ alert.msg.attributes # 0) =>
        heap[alert.msg.attributes] = attributes0

\* the user has set an attribute of an Alert made from a message and
\* add_id_attributes has added an identifier: the Alert's attributes have
\* both, the message's have neither
C25_Witness ==
    /\ apc = "add_id_attributes"
    /\ aexc = "none"
    /\ alert.msg # NoMsg
    /\ alert.msg.attributes # 0
    /\ alert._attributes # 0
    /\ heap[alert._attributes][<<"k">>] = StrVal(2)
    /\ heap[alert._attributes][<<"b">>] # NoValue
    /\ attributes0[<<"k">>] = StrVal(1)
    /\ attributes0[<<"b">>] = NoValue

\* C22: when no schema name was given, Alert.dict tries the payload as an Avro
\* file, then as JSON, and raises OpenAlertError only if both fail: a payload
\* that is JSON and no Avro file is decoded.
C22_AvroThenJson ==
    (apc = "dict" /\ alert.schema_name = <<>> /\ alert.msg # NoMsg
        /\ alert.msg.data.t = "bytes") =>
        LET avro == AvroToDict(alert.msg.data.b)
            json == JsonLoads(alert.msg.data.b)
        IN  IF avro.exc = "none" THEN aexc = "none" /\ ret = avro.val
            ELSE IF json.exc = "none" THEN aexc = "none" /\ ret = json.val
            ELSE aexc = "OpenAlertError"

\* the six bits a base64 character stands for
B64Index(c) == (CHOOSE i \in 1..Len(B64Alphabet) : B64Alphabet[i] = c) - 1

RECURSIVE B64Decode(_)
\* base64.b64decode(text) of a text b64encode made
B64Decode(text) ==
    IF Len(text) < 4 THEN <<>>
    ELSE LET c == [i \in 1..4 |-> IF text[i] = "=" THEN 0 ELSE B64Index(text[i])]
             n == (((c[1] * 64) + c[2]) * 64 + c[3]) * 64 + c[4]
             three == <<n \div 65536, (n \div 256) % 256, n % 256>>
             keep == IF text[3] = "=" THEN 1 ELSE IF text[4] = "=" THEN 2 ELSE 3
         IN  SubSeq(three, 1, keep) \o B64Decode(SubSeq(text, 5, Len(text)))

\* C29: from_cloud_run(envelope, schema_name) makes an Alert whose msg.data
\* is the base64-decoding of envelope["message"]["data"], whose
\* msg.attributes, message_id and ordering_key are the envelope's, and whose
\* dict, for a JSON-only schema, is the JSON record that was encoded.
C29_CloudRunDecodesData ==
    (envelope.t # "unset" /\ alert.made) =>
        LET message == envelope.message
            data == B64Decode(message.data)
        IN  /\ alert.msg.data = [t |-> "bytes", b |-> data]
            /\ "attributes" \in message.keys =>
                  /\ alert.msg.attributes # 0
                  /\ heap[alert.msg.attributes] = message.attributes
            /\ "message_id" \in message.keys => alert.msg.message_id = "12345"
            /\ "ordering_key" \in message.keys => alert.msg.ordering_key = "order_key"
            /\ (apc = "dict" /\ alert.schema_name = <<"default">>) =>
                  /\ aexc = "none"
                  /\ ret = JsonLoads(data).val

\* C30: from_cloud_run returns for every envelope whose "message" has "data",
\* whichever of attributes, message_id, publish_time and ordering_key it has
\* besides: a field it lacks is None (attributes: None or an empty dict) in
\* the message made, and publish_time is parsed with and without fractional
\* seconds.
C30_OptionalFields ==
    (/\ apc = "from_cloud_run"
     /\ ~InvalidEnvelope(envelope)
     /\ "data" \in envelope.message.keys) =>
        LET message == envelope.message
        IN  /\ aexc = "none"
            /\ alert.made
            /\ "attributes" \notin message.keys =>
                  \/ alert.msg.attributes = 0
                  \/ heap[alert.msg.attributes] = NoAttributes
            /\ "message_id" \notin message.keys => alert.msg.message_id = "None"
            /\ "ordering_key" \notin message.keys => alert.msg.ordering_key = "None"
            /\ alert.msg.publish_time =
                  IF "publish_time" \in message.keys
                    THEN <<"2023-01-01", "00:00:00", "000000", "+00:00">>
                    ELSE <<>>

\* whether val is a dict with the key
HasKey(val, key) ==
    /\ val.t = "dict"
    /\ \E i \in 1..Len(val.items) : KeyText[i] = key

RECURSIVE Lookup(_, _, _)
\* the value at the path in val, or default where a key of the path is missing
Lookup(val, path, default) ==
    IF Len(path) = 0 THEN val
    ELSE IF HasKey(val, path[1])
      THEN Lookup(val.items[KeyIndex(path[1])], Tail(path), default)
    ELSE default

\* C23: for a map entry that is a single name or a path of two or three
\* names, get(field, default) returns the value at that path in the decoded
\* dict, or default where a key along the path is missing, and never raises;
\* for a path of more than three names it raises.
C23_GetByDepth ==
    (apc = "get" /\ alert._map[args[1]].t \in {"str", "list"}) =>
        LET entry == alert._map[args[1]]
        IN  IF entry.t = "list" /\ Len(entry.path) > 3 THEN aexc # "none"
            ELSE /\ aexc = "none"
                 /\ ret = Lookup(alert._dict, entry.path, args[2])

C26_IdAttributesAreStrings ==
    (apc = "add_id_attributes" /\ aexc = "none" /\ alert._attributes # 0) =>
        \A k \in AttrKeys \ {<<"k">>} :
            heap[alert._attributes][k] # NoValue =>
                /\ \E f \in {"alertid", "objectid", "sourceid"} :
                      /\ alert._map[f] # NoEntry
                      /\ IdName(alert._map[f]) = k
                /\ heap[alert._attributes][k].t = "str"

\* C27: alertid is the value of the survey's alert-id field where the map
\* defines one (and the record has it), and otherwise is exactly what sourceid
\* is; objectid and sourceid are get("objectid") and get("sourceid").
C27_IdShortcuts ==
    LET same(o) == aexc = o.exc /\ (o.exc = "none" => ret = o.val)
        entry == alert._map["alertid"]
    IN  /\ (apc = "alertid" /\ alert._map # NoMap) =>
              IF entry = NoEntry
                THEN same(GetOf(alert, decodes, alert._map, "sourceid", NoneVal))
              ELSE (entry.t = "str" /\ HasKey(alert._dict, entry.path[1])) =>
                       /\ aexc = "none"
                       /\ ret = alert._dict.items[KeyIndex(entry.path[1])]
        /\ apc = "objectid" => same(GetOf(alert, decodes, alert._map, "objectid", NoneVal))
        /\ apc = "sourceid" => same(GetOf(alert, decodes, alert._map, "sourceid", NoneVal))

\* C31: for each message processed in blocking mode, the ack (or nack) of the
\* message happens before its count is reported to the foreground thread
\* through the queue: a count that is on the queue, or that the foreground
\* thread has taken from it, belongs to a message already acked or nacked.
C31_AckBeforeCountReported ==
    _block =>
        \A d \in Msgs :
            (QueuedBy(d) # {} \/ item = d) => acks[d] + nacks[d] = 1

\* C32: in blocking mode, when the foreground thread has decided to stop and
\* has cancelled the stream, no message is acked while its count is still on
\* the queue or taken from it without its task_done(): every acked message is
\* in the running total.
C32_NoAckedUncountedAtStop ==
    (_block /\ fpc = "stop_result") =>
        \A d \in Msgs : acks[d] = 1 => (QueuedBy(d) = {} /\ item # d)

\* C33: in blocking mode, for every max_results, None included, a worker that
\* has put its count on the queue is past the handshake only once the
\* foreground thread has taken that item from the queue and marked it done.
C33_WorkerWaitsForTaskDone ==
    _block =>
        \A d \in Msgs :
            (wpc[d] \in {"ack_or_nack", "done"} /\ count[d] # Unbound) =>
                /\ QueuedBy(d) = {}
                /\ ~(item = d /\ fpc = "task_done")

\* C34: when the classification of a Response raises inside handle_response,
\* the ack of the Response is forced to False, the message is nacked and never
\* acked, and handle_response raises nothing.
C34_ClassificationFailureNacks ==
    \A d \in Msgs :
        (wpc[d] # "undelivered" /\ response[d].result = "missing") =>
            /\ ~response[d].ack
            /\ wexc[d] = "none"
            /\ acks[d] = 0
            /\ Left(d) => nacks[d] = 1

\* C35: for every user_kwargs, the non-empty ones included, callback() invokes
\* the user callback exactly once for each message it decoded, and the call
\* that passes the keyword arguments raises nothing.
C35_UserCallbackOncePerMessage ==
    user_callback =>
        \A d \in Msgs :
            (wpc[d] # "undelivered" /\ ~unpack_error[d]) =>
                /\ cb_calls[d] = 1
                /\ wexc[d] # "TypeError"

\* C40: handle_response classifies on Response.result alone, whatever
\* Response.ack is: a Response(ack=False, result=x) with x neither None nor
\* False is appended to results once and counted as 1, and its message is
\* nacked and never acked; so is every later delivery with such a Response.
C40_ClassificationIgnoresAck ==
    \A d \in Msgs :
        (Classified(d) /\ ~response[d].ack /\ response[d].result = "value") =>
            /\ count[d] = 1
            /\ TimesStored(d) = 1
            /\ acks[d] = 0
            /\ wpc[d] = "done" => nacks[d] = 1

\* two deliveries were nacked, and both are in results and in the running total
C40_Witness ==
    /\ _block
    /\ total_count = 2
    /\ Len(results) = 2
    /\ \A d \in 1..2 :
          /\ wpc[d] = "done"
          /\ ~response[d].ack
          /\ response[d].result = "value"
          /\ nacks[d] = 1
          /\ acks[d] = 0

\* C37: when stream(block=True) returns after the max_results = N stopping
\* condition (and not after a timeout), results holds at most N entries.
C37_ResultsAtMostMaxResults ==
    (_block /\ max_results # None /\ fpc = "returned" /\ ~timed_out) =>
        Len(results) <= max_results

\* C36: for every subset S of {bytes, dict, metadata, msg} configured as
\* unpack, _unpack_msg returns for a valid message (one whose data is an Avro
\* file with a record) an Alert in which exactly the fields of S are populated
\* and every other field is None, and it decodes the data only when dict is
\* in S.
C36_UnpackPopulatesExactly ==
    (apc = "_unpack_msg" /\ AvroToDict(args[2].data.b).exc = "none") =>
        /\ aexc = "none"
        /\ ret.t = "Alert"
        /\ \A i \in 1..4 :
              (ret.items[i] # NoneVal) <=> (<<"dict", "bytes", "metadata", "msg">>[i] \in args[1])
        /\ decodes = IF "dict" \in args[1] THEN 1 ELSE 0

\* C38: the queue is empty whenever Draining starts, that is whenever a
\* stream(block=True) call enters _manage_flow, on a second call after an
\* earlier run has stopped too: the running total of a Draining phase has
\* only counts of callbacks that ran during the same call.
C38_QueueEmptyWhenDrainingStarts ==
    [][(fpc \notin {"get", "task_done"} /\ fpc' = "get") => _queue' = <<>>]_vars

\* C39: in blocking mode with max_results set, every worker that has put its
\* count on the queue and waits in the queue join is eventually released and
\* then acks or nacks its message and leaves callback(), also when it put its
\* count at or after the moment the foreground thread reached a stopping
\* condition: no worker waits forever.
C39_WorkersReleased ==
    \A d \in Msgs :
        (_block /\ max_results # None /\ wpc[d] = "join")
            ~> (wpc[d] = "done" /\ acks[d] + nacks[d] = 1)

====
